---- MODULE Spec2Model ----
(***************************************************************************)
(* A model of the ucon request dispatcher vendored in sinmetal/gcpsm:      *)
(* PathTemplate / Router (route selection), ServeMux (registration) and    *)
(* Bubble (the middleware chain).                                          *)
(*                                                                         *)
(* Strings are sequences of one-character strings, so strings.Split,       *)
(* strings.HasPrefix and the "{name}" pattern are computed as the code     *)
(* computes them.  The element "%2F" stands for the three characters of a  *)
(* percent-encoded slash: it is no separator for strings.Split and it is   *)
(* what url.QueryUnescape and URL.Path decode to "/".                      *)
(***************************************************************************)
EXTENDS Integers, Sequences, FiniteSets, TLC

VARIABLES
    handlers,     \* Router.handlers: the route definitions, in registration order
    middlewares,  \* ServeMux.middlewares: the stages, in registration order
    serving,      \* TRUE once the first request has been accepted
    r,            \* the request being served (or NoRequest)
    picked,       \* index in handlers returned by pickupBestRouteDefinition, 0 for nil
    b,            \* the Bubble of the request (or NoBubble)
    stack,        \* the call stack of the dispatch: Router.ServeHTTP, then stages
    w,            \* the ResponseWriter: status written, 0 while nothing is written
    wbody,        \* the ResponseWriter: the body written, NoBody while nothing is written
    log,          \* history of the dispatch: stage entries, exits, Next calls, handler calls
    plugins,      \* ServeMux.plugins: the plugin containers, in registration order
    prepares,     \* the number of calls of ServeMux.Prepare so far
    scans,        \* history of the HandlersScannerProcess calls: plugin and route list
    fatal,        \* the panic that ended the process, "none" while it runs
    parked        \* the other requests in flight: for each the r, picked, b, stack,
                  \* w, wbody and log of its goroutine while another one runs

vars == <<handlers, middlewares, serving, r, picked, b, stack, w, wbody, log,
          plugins, prepares, scans, fatal, parked>>

\* the state of the plugin machinery
prep == <<plugins, prepares, scans, fatal>>

----------------------------------------------------------------------------
(* Bounds of the model *)

MaxRoutes == 2        \* route definitions registered in the routing specification
                      \* (the chain specification registers one route)
MaxStages == 3        \* middleware stages registered
MaxPlugins == 2       \* plugins registered
MaxPrepares == 2      \* calls of ServeMux.Prepare, that of ListenAndServe included
MaxInFlight == 2      \* requests served concurrently in the concurrency specification

----------------------------------------------------------------------------
(* Strings *)

\* HasPrefix holding for the whole string only
HasPrefix_Whole(s, prefix) == s = prefix

HasPrefix(s, prefix) ==
    /\ Len(prefix) <= Len(s)
    /\ SubSeq(s, 1, Len(prefix)) = prefix

\* strings.Index(s, c) for a one-character c: 0-based index of the first c, -1 if none
Index(s, c) ==
    IF \E i \in 1..Len(s) : s[i] = c
    THEN (CHOOSE i \in 1..Len(s) : s[i] = c /\ \A j \in 1..(i-1) : s[j] # c) - 1
    ELSE -1

RECURSIVE SplitFrom(_, _, _, _)
SplitFrom(s, i, cur, acc) ==
    IF i > Len(s) THEN Append(acc, cur)
    ELSE IF s[i] = "/" THEN SplitFrom(s, i + 1, <<>>, Append(acc, cur))
    ELSE SplitFrom(s, i + 1, Append(cur, s[i]), acc)

\* strings.Split(s, "/")
Split(s) == SplitFrom(s, 1, <<>>, <<>>)

\* url.QueryUnescape, and the decoding that yields URL.Path: "%2F" becomes "/"
Unescape(s) == [i \in 1..Len(s) |-> IF s[i] = "%2F" THEN "/" ELSE s[i]]

RECURSIVE SplitOnFrom(_, _, _, _, _)
SplitOnFrom(s, sep, i, cur, acc) ==
    IF i > Len(s) THEN Append(acc, cur)
    ELSE IF s[i] = sep THEN SplitOnFrom(s, sep, i + 1, <<>>, Append(acc, cur))
    ELSE SplitOnFrom(s, sep, i + 1, Append(cur, s[i]), acc)

\* strings.Split(s, sep) for a one-character sep
SplitOn(s, sep) == SplitOnFrom(s, sep, 1, <<>>, <<>>)

LowerCase == <<"a", "b", "c", "d", "e", "f", "g", "h", "i", "j", "k", "l", "m",
               "n", "o", "p", "q", "r", "s", "t", "u", "v", "w", "x", "y", "z">>

UpperCase == <<"A", "B", "C", "D", "E", "F", "G", "H", "I", "J", "K", "L", "M",
               "N", "O", "P", "Q", "R", "S", "T", "U", "V", "W", "X", "Y", "Z">>

\* strings.ToUpper
ToUpper(s) ==
    [i \in 1..Len(s) |->
        IF \E k \in 1..26 : LowerCase[k] = s[i]
        THEN UpperCase[CHOOSE k \in 1..26 : LowerCase[k] = s[i]]
        ELSE s[i]]

\* the string of a sequence of characters, as one value
RECURSIVE Text(_)
Text(s) == IF s = <<>> THEN "" ELSE Head(s) \o Text(Tail(s))

Digits == <<"0", "1", "2", "3", "4", "5", "6", "7", "8", "9">>

IsDigit(c, base) == \E d \in 1..base : Digits[d] = c

DigitValue(c) == (CHOOSE d \in 1..10 : Digits[d] = c) - 1

RECURSIVE ParseDigits(_, _, _)
ParseDigits(s, n, base) ==
    IF n = 0 THEN 0
    ELSE ParseDigits(s, n - 1, base) * base + DigitValue(s[n])

\* strconv.ParseInt(value, 0, bits) on an unsigned literal: [ok, v].  Base 0
\* reads a literal with a leading "0" as octal.
ParseInt(value) ==
    LET base == IF Len(value) > 1 /\ value[1] = "0" THEN 8 ELSE 10
    IN  IF value # <<>> /\ \A i \in 1..Len(value) : IsDigit(value[i], base)
        THEN [ok |-> TRUE, v |-> ParseDigits(value, Len(value), base)]
        ELSE [ok |-> FALSE, v |-> 0]

----------------------------------------------------------------------------
(* JSON documents *)

\* A JSON value: a number or a string
JNone == [kind |-> "none", n |-> 0, s |-> <<>>]
JNum(n) == [kind |-> "num", n |-> n, s |-> <<>>]
JStr(str) == [kind |-> "str", n |-> 0, s |-> str]

\* A document is a sequence of tokens.  Tok is a token of one byte, Member a
\* "key":value pair (with its comma, if any), which stands for several bytes.
Tok(t) == [tok |-> t, key |-> <<>>, val |-> JNone]
Member(key, val) == [tok |-> "member", key |-> key, val |-> val]

\* nothing written, nothing sent
NoBody == <<>>

\* the document is an object: "{", members, "}"
IsObjectDocument(doc) ==
    /\ Len(doc) >= 2
    /\ doc[1] = Tok("{")
    /\ doc[Len(doc)] = Tok("}")
    /\ \A i \in 2..(Len(doc) - 1) : doc[i].tok = "member"

----------------------------------------------------------------------------
(* PathTemplate *)

\* regexp "^\{(.+)\}$" on one segment
IsVariableSegment(seg) ==
    /\ Len(seg) >= 3
    /\ seg[1] = "{"
    /\ seg[Len(seg)] = "}"

ParsePathTemplate(pathTmpl) ==
    LET vIndex == Index(pathTmpl, "{")
        splitted == Split(pathTmpl)
    IN  [ PathTemplate         |-> pathTmpl,
          httpHandlePath       |-> IF vIndex = -1 THEN pathTmpl
                                   ELSE SubSeq(pathTmpl, 1, vIndex),
          isVariables          |-> [i \in 1..Len(splitted) |-> IsVariableSegment(splitted[i])],
          splittedPathTemplate |-> splitted ]

\* VariableName keeping the braces
VariableName_WithBraces(seg) == seg

\* the key of a variable segment: s[1:len(s)-1]
VariableName(seg) == SubSeq(seg, 2, Len(seg) - 1)

\* PathTemplate.Match: [ok, params]; params maps variable names to unescaped values
Match(pt, requestPath) ==
    LET full        == Split(requestPath)
        requiredLen == Len(pt.splittedPathTemplate)
        requestLen  == Len(full)
        requestPathSplitted ==
            IF requiredLen < requestLen THEN SubSeq(full, 1, requiredLen) ELSE full
        vidx == {i \in 1..requiredLen : pt.isVariables[i]}
        names == {VariableName(pt.splittedPathTemplate[i]) : i \in vidx}
        last(n) == CHOOSE i \in vidx :
                      /\ VariableName(pt.splittedPathTemplate[i]) = n
                      /\ \A j \in vidx :
                            VariableName(pt.splittedPathTemplate[j]) = n => j <= i
    IN  IF pt.PathTemplate = pt.httpHandlePath /\ HasPrefix(requestPath, pt.httpHandlePath)
        THEN [ok |-> TRUE, params |-> <<>>]
        ELSE IF requiredLen > requestLen
        THEN [ok |-> FALSE, params |-> <<>>]
        ELSE IF \E i \in 1..requiredLen :
                   \/ pt.isVariables[i] /\ requestPathSplitted[i] = <<>>
                   \/ ~pt.isVariables[i]
                        /\ pt.splittedPathTemplate[i] # requestPathSplitted[i]
        THEN [ok |-> FALSE, params |-> <<>>]
        ELSE [ok |-> TRUE,
              params |-> [n \in names |-> Unescape(requestPathSplitted[last(n)])]]

----------------------------------------------------------------------------
(* Router *)

noMethodMatch == 0
starMethodMatch == 1
overloadMethodMatch == 2
exactMethodMatch == 3

noPathMatch == 0
starPathMatch == 1
exactPathMatch == 2

\* A request: method, escaped path, r.URL.Query() as a set of [key, values],
\* the Content-Type header and the body
Request(method, path, query, ct, body) ==
    [Method |-> method, RawPath |-> path, Query |-> query,
     ContentType |-> ct, Body |-> body]

\* a request without query, Content-Type and body
PlainRequest(method, path) == Request(method, path, {}, <<>>, NoBody)

NoRequest == PlainRequest("", <<>>)

\* r.URL.Path: the decoded path
URLPath(req) == Unescape(req.RawPath)

\* encodedPathFromRequest: r.URL.EscapedPath(), the path as the client sent it
encodedPathFromRequest(req) == req.RawPath

\* methodMatchRate with the wildcard ranked as an exact match
methodMatchRate_StarExact(rd, req) ==
    IF rd.Method = "*" THEN exactMethodMatch
    ELSE IF rd.Method = "GET" /\ req.Method = "HEAD" THEN overloadMethodMatch
    ELSE IF rd.Method = req.Method THEN exactMethodMatch
    ELSE noMethodMatch

\* methodMatchRate with GET-for-HEAD ranked as an exact match
methodMatchRate_OverloadExact(rd, req) ==
    IF rd.Method = "*" THEN starMethodMatch
    ELSE IF rd.Method = "GET" /\ req.Method = "HEAD" THEN exactMethodMatch
    ELSE IF rd.Method = req.Method THEN exactMethodMatch
    ELSE noMethodMatch

methodMatchRate(rd, req) ==
    IF rd.Method = "*" THEN starMethodMatch
    ELSE IF rd.Method = "GET" /\ req.Method = "HEAD" THEN overloadMethodMatch
    ELSE IF rd.Method = req.Method THEN exactMethodMatch
    ELSE noMethodMatch

\* TokenRate with a matching literal weighted like an open segment
TokenRate_LiteralWeak(pt, reqPathTokens, i) ==
    IF i = 1 THEN 0
    ELSE IF pt.isVariables[i] THEN exactPathMatch
    ELSE IF pt.splittedPathTemplate[i] = <<>> THEN starPathMatch
    ELSE IF pt.splittedPathTemplate[i] = reqPathTokens[i] THEN starPathMatch
    ELSE 0

\* the contribution of template token i to the path rate
TokenRate(pt, reqPathTokens, i) ==
    IF i = 1 THEN 0
    ELSE IF pt.isVariables[i] THEN exactPathMatch
    ELSE IF pt.splittedPathTemplate[i] = <<>> THEN starPathMatch
    ELSE IF pt.splittedPathTemplate[i] = reqPathTokens[i] THEN exactPathMatch
    ELSE 0

RECURSIVE SumRate(_, _, _)
SumRate(pt, reqPathTokens, i) ==
    IF i = 0 THEN 0
    ELSE SumRate(pt, reqPathTokens, i - 1) + TokenRate(pt, reqPathTokens, i)

pathMatchRate(rd, req) ==
    LET tempPathTokens == rd.PathTemplate.splittedPathTemplate
        reqPathTokens  == Split(URLPath(req))
    IN  IF ~Match(rd.PathTemplate, URLPath(req)).ok THEN noPathMatch
        ELSE IF Len(reqPathTokens) < Len(tempPathTokens) THEN noPathMatch
        ELSE SumRate(rd.PathTemplate, reqPathTokens, Len(tempPathTokens))

\* PickStep without the "both rates equal the best: continue" test
PickStep_ReplaceTie(best, rds, i, req) ==
    LET mRate == methodMatchRate(rds[i], req)
        pRate == pathMatchRate(rds[i], req)
    IN  IF mRate = noMethodMatch \/ mRate < best.m THEN best
        ELSE IF pRate = noPathMatch \/ pRate < best.p THEN best
        ELSE [route |-> i, m |-> mRate, p |-> pRate]

\* PickStep keeping the first entry that is eligible
PickStep_KeepFirst(best, rds, i, req) ==
    LET mRate == methodMatchRate(rds[i], req)
        pRate == pathMatchRate(rds[i], req)
    IN  IF mRate = noMethodMatch \/ pRate = noPathMatch \/ best.route # 0 THEN best
        ELSE [route |-> i, m |-> mRate, p |-> pRate]

\* one iteration of the selection loop; best = [route, m, p], route 0 is nil
PickStep(best, rds, i, req) ==
    LET mRate == methodMatchRate(rds[i], req)
        pRate == pathMatchRate(rds[i], req)
    IN  IF mRate = noMethodMatch \/ mRate < best.m THEN best
        ELSE IF pRate = noPathMatch \/ pRate < best.p THEN best
        ELSE IF best.m = mRate /\ best.p = pRate THEN best
        ELSE [route |-> i, m |-> mRate, p |-> pRate]

RECURSIVE PickLoop(_, _, _)
PickLoop(rds, n, req) ==
    IF n = 0 THEN [route |-> 0, m |-> noMethodMatch, p |-> noPathMatch]
    ELSE PickStep(PickLoop(rds, n - 1, req), rds, n, req)

\* pickupBestRouteDefinition with bestRoute starting at the first entry
pickupBestRouteDefinition_FirstDefault(rds, req) ==
    IF PickLoop(rds, Len(rds), req).route = 0 /\ Len(rds) > 0 THEN 1
    ELSE PickLoop(rds, Len(rds), req).route

\* Router.pickupBestRouteDefinition: the index of the selected entry, 0 for nil
pickupBestRouteDefinition(rds, req) == PickLoop(rds, Len(rds), req).route

----------------------------------------------------------------------------
(* Handlers, argument types and values *)

\* Declared parameter types: "req" *http.Request, "resp" http.ResponseWriter,
\* "ctx" context.Context, and "obj", a pointer to the request struct
\*   struct { ID int `json:"id"`; Offset int `json:"offset"`; Text string `json:"text"`;
\*            Tags []int `json:"tags"` }
\* the struct of the README's TestRouterServeHTTP1 with a field of a slice type.
AssignableTo(valueType, paramType) == valueType = paramType

\* the zero value of the request struct
ZeroObject == [id |-> 0, offset |-> 0, text |-> <<>>, tags |-> <<>>]

\* A reflect.Value: its type, who made it ("Bubble" for b.R, b.W and
\* b.Context, otherwise the stage that made it) and, for a request struct, its
\* fields.
ValueOf(type, src) == [type |-> type, src |-> src, obj |-> ZeroObject]

\* the zero reflect.Value of an unresolved argument slot; IsValid() is false
InvalidValue == ValueOf("invalid", "zero")

IsValid(v) == v.type # "invalid"

\* The handler functions registered in the chain specification:
\* func(), func(w, r) as in the README, func(ctx, form) (*Resp, error) as SecretAPI
HandlerFuncs ==
    { [In |-> <<>>,               Out |-> <<>>],
      [In |-> <<"resp", "req">>,  Out |-> <<>>],
      [In |-> <<"ctx", "obj">>,   Out |-> <<"obj", "error">>] }

\* A value of the response struct, struct { Text string `json:"text"` },
\* behind its pointer; NilResponse is the nil pointer
Response(text) == [nil |-> FALSE, text |-> text]

NilResponse == [nil |-> TRUE, text |-> <<>>]

\* the Text of the request struct among the arguments, "" if there is none
RequestText(args) ==
    IF \E idx \in 1..Len(args) : args[idx].type = "obj"
    THEN args[CHOOSE idx \in 1..Len(args) : args[idx].type = "obj"].obj.text
    ELSE <<>>

\* What hv.Call(args) can return: one value per declared result.  A handler
\* that declares results answers as the handler of TestRouterServeHTTP1 does,
\* with Text: req.Text + "!", or fails, or returns no response and no error.
CallResults(h, args) ==
    IF h.Out = <<>> THEN { <<>> }
    ELSE { <<[type |-> "obj", val |-> Response(Append(RequestText(args), "!"))],
             [type |-> "error", val |-> "nil"]>>,
           <<[type |-> "obj", val |-> NilResponse],
             [type |-> "error", val |-> "ErrHandler"]>>,
           <<[type |-> "obj", val |-> NilResponse],
             [type |-> "error", val |-> "nil"]>> }

----------------------------------------------------------------------------
(* The request struct and its mapping from strings *)

KeyId     == <<"i", "d">>
KeyOffset == <<"o", "f", "f", "s", "e", "t">>
KeyText   == <<"t", "e", "x", "t">>
KeyBar    == <<"b", "a", "r">>
KeyCode    == <<"c", "o", "d", "e">>
KeyMessage == <<"m", "e", "s", "s", "a", "g", "e">>
KeyType    == <<"t", "y", "p", "e">>
KeyTags    == <<"t", "a", "g", "s">>

\* the fields of a struct type, in declaration order; *http.Request is a
\* pointer to a struct too, none of whose fields has one of the keys above
StructFields(type) ==
    IF type = "obj" THEN <<"id", "offset", "text", "tags">> ELSE <<>>

\* structFieldToKey: the name in the json tag
structFieldToKey(f) ==
    CASE f = "id" -> KeyId
      [] f = "offset" -> KeyOffset
      [] f = "text" -> KeyText
      [] f = "tags" -> KeyTags

\* the kind of a field; the elements of the slice are ints
FieldKind(f) ==
    CASE f = "text" -> "string"
      [] f = "tags" -> "slice"
      [] OTHER      -> "int"

\* the field of the struct type that has the key, "" if none
FieldOfKey(type, key) ==
    LET fs == StructFields(type)
    IN  IF \E i \in 1..Len(fs) : structFieldToKey(fs[i]) = key
        THEN fs[CHOOSE i \in 1..Len(fs) :
                   /\ structFieldToKey(fs[i]) = key
                   /\ \A j \in 1..(i - 1) : structFieldToKey(fs[j]) # key]
        ELSE ""

\* SetValueFromString on field f of struct o: [err, obj]
SetValueFromString(o, f, value) ==
    IF FieldKind(f) = "string"
    THEN [err |-> "nil", obj |-> [o EXCEPT ![f] = value]]
    ELSE IF ~ParseInt(value).ok
    THEN [err |-> "ErrNotIntFormat", obj |-> o]
    ELSE IF FieldKind(f) = "slice"
    THEN [err |-> "nil", obj |-> [o EXCEPT ![f] = <<ParseInt(value).v>>]]
    ELSE [err |-> "nil", obj |-> [o EXCEPT ![f] = ParseInt(value).v]]

\* SetValueFromStrings keeping the first value only
SetValueFromStrings_FirstOnly(o, f, values) == SetValueFromString(o, f, values[1])

\* SetValueFromStrings appending at the front
SetValueFromStrings_Reversed(o, f, values) ==
    IF \E i \in 1..Len(values) : ~ParseInt(values[i]).ok
    THEN [err |-> "ErrNotIntFormat", obj |-> o]
    ELSE [err |-> "nil",
          obj |-> [o EXCEPT ![f] = [i \in 1..Len(values) |->
                                       ParseInt(values[Len(values) + 1 - i]).v]]]

\* SetValueFromStrings on field f of struct o, a slice of ints: every value is
\* parsed and appended in the order given; the field is set when all parsed
SetValueFromStrings(o, f, values) ==
    IF \E i \in 1..Len(values) : ~ParseInt(values[i]).ok
    THEN [err |-> "ErrNotIntFormat", obj |-> o]
    ELSE [err |-> "nil",
          obj |-> [o EXCEPT ![f] = [i \in 1..Len(values) |-> ParseInt(values[i]).v]]]

\* valueStringMapper: [found, err, obj]
valueStringMapper(o, type, key, value) ==
    LET f == FieldOfKey(type, key)
    IN  IF f = "" THEN [found |-> FALSE, err |-> "nil", obj |-> o]
        ELSE [found |-> TRUE,
              err   |-> SetValueFromString(o, f, value).err,
              obj   |-> SetValueFromString(o, f, value).obj]

\* valueStringSliceMapper: [found, err, obj]; a field that is no slice takes
\* the first value, a slice takes them all
valueStringSliceMapper(o, type, key, values) ==
    LET f == FieldOfKey(type, key)
        m == valueStringMapper(o, type, key, values[1])
        s == SetValueFromStrings(o, f, values)
    IN  IF f = "" THEN [found |-> FALSE, err |-> "nil", obj |-> o]
        ELSE IF FieldKind(f) = "slice"
        THEN IF s.err # "nil" THEN [found |-> FALSE, err |-> s.err, obj |-> o]
             ELSE [found |-> TRUE, err |-> "nil", obj |-> s.obj]
        ELSE IF Len(values) = 0
        THEN [found |-> FALSE, err |-> "nil", obj |-> o]
        ELSE IF m.err # "nil" THEN [found |-> FALSE, err |-> m.err, obj |-> m.obj]
        ELSE m

\* RequestObjectMapper, "url path extract": every path parameter is mapped; a
\* conversion error of valueStringMapper is dropped, a missing field is not
RECURSIVE MapPath(_, _, _, _)
MapPath(o, type, params, keys) ==
    IF keys = {} THEN [err |-> "nil", obj |-> o]
    ELSE LET key == CHOOSE k \in keys : TRUE
             m   == valueStringMapper(o, type, key, params[key])
         IN  IF ~m.found THEN [err |-> "ErrPathParameterFieldMissing", obj |-> o]
             ELSE MapPath(m.obj, type, params, keys \ {key})

\* RequestObjectMapper, "url get parameter": every query key is mapped; a key
\* without a field is skipped, a conversion error is returned
RECURSIVE MapQuery(_, _, _)
MapQuery(o, type, query) ==
    IF query = {} THEN [err |-> "nil", obj |-> o]
    ELSE LET q == CHOOSE x \in query : TRUE
             m == valueStringSliceMapper(o, type, q.key, q.values)
         IN  IF m.err # "nil" THEN [err |-> m.err, obj |-> o]
             ELSE MapQuery(m.obj, type, query \ {q})

\* the members i .. of an object document, decoded into o: [ok, obj]
RECURSIVE UnmarshalMembers(_, _, _, _)
UnmarshalMembers(doc, i, o, type) ==
    IF i > Len(doc) - 1 THEN [ok |-> TRUE, obj |-> o]
    ELSE LET f == FieldOfKey(type, doc[i].key)
         IN  IF f = "" THEN UnmarshalMembers(doc, i + 1, o, type)
             ELSE IF FieldKind(f) = "int" /\ doc[i].val.kind = "num"
             THEN UnmarshalMembers(doc, i + 1, [o EXCEPT ![f] = doc[i].val.n], type)
             ELSE IF FieldKind(f) = "string" /\ doc[i].val.kind = "str"
             THEN UnmarshalMembers(doc, i + 1, [o EXCEPT ![f] = doc[i].val.s], type)
             ELSE [ok |-> FALSE, obj |-> o]

\* json.Unmarshal(body, req) into a struct: [ok, obj]
Unmarshal(doc, o, type) ==
    IF ~IsObjectDocument(doc) THEN [ok |-> FALSE, obj |-> o]
    ELSE UnmarshalMembers(doc, 2, o, type)

\* Marshal leaving the Text out
Marshal_NoText(resp) == <<Tok("{"), Tok("}")>>

\* json.Marshal of a response struct
Marshal(resp) == <<Tok("{"), Member(KeyText, JStr(resp.text)), Tok("}")>>

\* MapBody without the test for a body of two bytes
MapBody_DecodeTwoBytes(o, type, req) ==
    LET ct == SplitOn(req.ContentType, ";")
    IN  IF ct[1] # <<"application/json">> THEN [err |-> "nil", obj |-> o]
        ELSE IF Len(req.Body) = 0 THEN [err |-> "nil", obj |-> o]
        ELSE IF Unmarshal(req.Body, o, type).ok
        THEN [err |-> "nil", obj |-> Unmarshal(req.Body, o, type).obj]
        ELSE [err |-> "ErrUnmarshal", obj |-> o]

\* MapBody dropping the error of json.Unmarshal
MapBody_IgnoreError(o, type, req) == [err |-> "nil", obj |-> o]

\* RequestObjectMapper, "request body as JSON": [err, obj]
MapBody(o, type, req) ==
    LET ct == SplitOn(req.ContentType, ";")
    IN  IF ct[1] # <<"application/json">> THEN [err |-> "nil", obj |-> o]
        ELSE IF Len(req.Body) = 2 THEN [err |-> "nil", obj |-> o]
        ELSE IF Len(req.Body) = 0 THEN [err |-> "nil", obj |-> o]
        ELSE IF Unmarshal(req.Body, o, type).ok
        THEN [err |-> "nil", obj |-> Unmarshal(req.Body, o, type).obj]
        ELSE [err |-> "ErrUnmarshal", obj |-> o]

----------------------------------------------------------------------------
(* Bubble *)

NoBubble == [ exists |-> FALSE, RequestHandler |-> [In |-> <<>>, Out |-> <<>>],
              Params |-> <<>>, Handled |-> FALSE, ArgumentTypes |-> <<>>,
              Arguments |-> <<>>, Returns |-> <<>>, queueIndex |-> 0 ]

\* newBubble with the cursor kept in the mux, shared by the requests in flight
newBubble_SharedCursor(rd, params) ==
    [ exists         |-> TRUE,
      RequestHandler |-> rd.HandlerContainer,
      Params         |-> params,
      Handled        |-> FALSE,
      ArgumentTypes  |-> rd.HandlerContainer.In,
      Arguments      |-> [i \in 1..Len(rd.HandlerContainer.In) |-> InvalidValue],
      Returns        |-> <<>>,
      queueIndex     |-> IF parked = <<>> THEN 0 ELSE parked[Len(parked)].b.queueIndex ]

\* ServeMux.newBubble and Bubble.init
newBubble(rd, params) ==
    [ exists         |-> TRUE,
      RequestHandler |-> rd.HandlerContainer,
      Params         |-> params,
      Handled        |-> FALSE,
      ArgumentTypes  |-> rd.HandlerContainer.In,
      Arguments      |-> [i \in 1..Len(rd.HandlerContainer.In) |-> InvalidValue],
      Returns        |-> <<>>,
      queueIndex     |-> 0 ]

\* the checks of Bubble.do: the error it returns, "nil" when the handler may be called
doCheck(bb) ==
    IF \/ Len(bb.Arguments) # Len(bb.ArgumentTypes)
       \/ Len(bb.Arguments) # Len(bb.RequestHandler.In)
    THEN "ErrInvalidArgumentLength"
    ELSE IF \E idx \in 1..Len(bb.Arguments) :
               \/ ~IsValid(bb.Arguments[idx])
               \/ ~AssignableTo(bb.Arguments[idx].type, bb.RequestHandler.In[idx])
    THEN "ErrInvalidArgumentValue"
    ELSE "nil"

\* do without the early returns
do_AlwaysCall(bb, returns) == [bb EXCEPT !.Returns = returns, !.Handled = TRUE]

\* Bubble.do with the handler returning returns: the bubble afterwards
do(bb, returns) ==
    IF doCheck(bb) # "nil" THEN bb
    ELSE [bb EXCEPT !.Returns = returns, !.Handled = TRUE]

\* http.ResponseWriter.WriteHeader: only the first status written counts
WriteHeader(status, code) == IF status = 0 THEN code ELSE status

\* the errors made by newBadRequestf
BadRequests == {"ErrCSRFBadToken", "ErrNotIntFormat", "ErrUnmarshal"}

\* the validateError RequestValidator wraps a *golidator.ErrorReport in
ErrValidate == "validateError"

\* an error of the application that implements HTTPErrorResponse, with a
\* status of its own
ErrTeapot == "ErrTeapot"

\* the errors that implement HTTPErrorResponse
HTTPErrorResponses == BadRequests \cup {ErrValidate, ErrTeapot}

\* StatusCode disregarding the HTTPErrorResponse interface
StatusCode_Always500(err) == 500

\* HTTPErrorResponse.StatusCode of an error, 500 for an error without the interface
StatusCode(err) ==
    IF err \in BadRequests \/ err = ErrValidate THEN 400
    ELSE IF err = ErrTeapot THEN 418
    ELSE 500

\* http.ResponseWriter.Write
Write(body, data) == body \o data

\* json.Marshal of he.ErrorMessage(): the httpError of an error, or, for a
\* validateError, its Origin, the *golidator.ErrorReport
MarshalError(err) ==
    IF err = ErrValidate
    THEN <<Tok("{"), Member(KeyType, JStr(<<"https://github.com/favclip/golidator">>)),
           Tok("details"), Tok("}")>>
    ELSE <<Tok("{"), Member(KeyCode, JNum(StatusCode(err))),
           Member(KeyMessage, JStr(<<err>>)), Tok("}")>>

\* the body http.Error and http.NotFound write: the message as plain text
ErrorText(msg) == <<[tok |-> "text", key |-> <<msg>>, val |-> JNone]>>

\* Bubble.writeErrorObject: the status after it wrote the error
writeErrorObject(status, err) == WriteHeader(status, StatusCode(err))

----------------------------------------------------------------------------
(* Registration *)

\* The middleware functions registered.  HTTPRWDI, ContextDI and
\* ResponseMapper are the built-in stages; the others are application stages:
\*   Logger  returns b.Next()                          (the README's Logger)
\*   Gate    returns nil or an error without b.Next(), or returns b.Next()
\*           (as CSRFProtect does, depending on the request)
\*   Twice   calls b.Next() and then returns b.Next()
\*   UserDI  writes a value of its own into one argument slot, a request
\*           struct or a value of the declared type, or appends a request
\*           struct to Arguments, and returns b.Next() (the README's NowInJST)
MiddlewareFuncs ==
    {"Logger", "HTTPRWDI", "ContextDI", "RequestObjectMapper", "ResponseMapper",
     "Gate", "Twice", "UserDI"}

\* Router.addRoute
addRoute(rds, rd) == Append(rds, rd)

\* a handler that is no function: a value of a struct type
NotAFunction == [Kind |-> "struct", In |-> <<>>, Out |-> <<>>]

\* CheckFunction: reflect.ValueOf(target).Kind() == reflect.Func
IsFunction(hc) == "Kind" \notin DOMAIN hc

\* the loop of ServeMux.Handle over the first n method tokens
RECURSIVE HandleLoop(_, _, _, _, _)
HandleLoop(rds, methods, pathTmpl, hc, n) ==
    IF n = 0 THEN rds
    ELSE addRoute(HandleLoop(rds, methods, pathTmpl, hc, n - 1),
                  [ Method           |-> Text(methods[n]),
                    PathTemplate     |-> pathTmpl,
                    HandlerContainer |-> hc ])

\* HandleRoutes registering the first method token only
HandleRoutes_FirstToken(rds, method, path, hc) ==
    HandleLoop(rds, SplitOn(ToUpper(method), ","), ParsePathTemplate(path), hc, 1)

\* HandleRoutes without strings.ToUpper
HandleRoutes_NoUpper(rds, method, path, hc) ==
    HandleLoop(rds, SplitOn(method, ","), ParsePathTemplate(path), hc,
               Len(SplitOn(method, ",")))

\* the routes of the router after ServeMux.Handle has passed CheckFunction
HandleRoutes(rds, method, path, hc) ==
    LET pathTmpl == ParsePathTemplate(path)
        methods  == SplitOn(ToUpper(method), ",")
    IN  HandleLoop(rds, methods, pathTmpl, hc, Len(methods))

\* the method strings of the one-method registrations
MethodString(m) ==
    CASE m = "GET"  -> <<"G", "E", "T">>
      [] m = "HEAD" -> <<"H", "E", "A", "D">>
      [] m = "PUT"  -> <<"P", "U", "T">>
      [] m = "POST" -> <<"P", "O", "S", "T">>
      [] m = "*"    -> <<"*">>

\* ServeMux.Handle: method is the method string, a comma-separated list; at
\* most max routes are registered
Handle(method, path, hc, max) ==
    /\ fatal = "none"
    /\ ~serving
    /\ Len(HandleRoutes(handlers, method, path, hc)) <= max
    /\ IF IsFunction(hc)
       THEN /\ handlers' = HandleRoutes(handlers, method, path, hc)
            /\ fatal' = fatal
       ELSE /\ handlers' = handlers
            /\ fatal' = "argument is not function"
    /\ UNCHANGED <<middlewares, serving, r, picked, b, stack, w, wbody, log,
                   plugins, prepares, scans, parked>>

\* ServeMux.Middleware
Middleware(f) ==
    /\ fatal = "none"
    /\ ~serving
    /\ Len(middlewares) < MaxStages
    /\ middlewares' = Append(middlewares, f)
    /\ UNCHANGED <<handlers, serving, r, picked, b, stack, w, wbody, log, prep, parked>>

\* Orthodox: the four standard stages, appended in this order
OrthodoxChain == <<"ResponseMapper", "HTTPRWDI", "ContextDI", "RequestObjectMapper">>

Orthodox ==
    /\ fatal = "none"
    /\ ~serving
    /\ middlewares = <<>>
    /\ middlewares' = middlewares \o OrthodoxChain
    /\ UNCHANGED <<handlers, serving, r, picked, b, stack, w, wbody, log, prep, parked>>

----------------------------------------------------------------------------
(* Plugins *)

\* The objects given to ServeMux.Plugin:
\*   "scanner"  implements HandlersScannerPlugin; its hook reads the routes
\*   "swagger"  the swagger plugin: its hook reads the routes and registers
\*              GET /api/swagger.json with m.HandleFunc
\*   "failing"  implements HandlersScannerPlugin; its hook returns an error
\*   "none"     implements no plugin interface
PluginBases == {"scanner", "swagger", "failing", "none"}

PathSwagger ==
    <<"/", "a", "p", "i", "/", "s", "w", "a", "g", "g", "e", "r", ".", "j", "s", "o", "n">>

SwaggerRoute ==
    [ Method           |-> "GET",
      PathTemplate     |-> ParsePathTemplate(PathSwagger),
      HandlerContainer |-> [In |-> <<"resp", "req">>, Out |-> <<"obj">>] ]

\* pluginContainer.HandlersScanner: the plugin itself if it implements
\* HandlersScannerPlugin, "nil" otherwise
HandlersScanner(p) == IF p.base = "none" THEN "nil" ELSE p.base

\* HandlersScannerProcess(m, rds) of a plugin: the error it returns and the
\* routes of the router afterwards
HandlersScannerProcess(sc, rds) ==
    CASE sc = "swagger" -> [err |-> "nil", handlers |-> addRoute(rds, SwaggerRoute)]
      [] sc = "failing" -> [err |-> "ErrScan", handlers |-> rds]
      [] OTHER          -> [err |-> "nil", handlers |-> rds]

\* Plugin without check()
Plugin_NoCheck(plugin) ==
    /\ fatal = "none"
    /\ ~serving
    /\ Len(plugins) < MaxPlugins
    /\ plugins' = Append(plugins, [base |-> plugin])
    /\ UNCHANGED <<handlers, middlewares, serving, r, picked, b, stack, w, wbody,
                   log, prepares, scans, fatal, parked>>

\* ServeMux.Plugin: check() panics for a plugin without an interface, before
\* the plugin is appended
Plugin(plugin) ==
    LET p == [base |-> plugin]
    IN  /\ fatal = "none"
        /\ ~serving
        /\ Len(plugins) < MaxPlugins
        /\ IF HandlersScanner(p) = "nil"
           THEN /\ fatal' = "Plugin: unused plugin"
                /\ plugins' = plugins
           ELSE /\ fatal' = fatal
                /\ plugins' = Append(plugins, p)
        /\ UNCHANGED <<handlers, middlewares, serving, r, picked, b, stack, w, wbody,
                       log, prepares, scans, parked>>

\* PrepareStep going on after the hook returned an error
PrepareStep_IgnoreError(st, i, n) ==
    LET sc  == HandlersScanner(plugins[i])
        res == HandlersScannerProcess(sc, st.handlers)
    IN  IF st.fatal # "none" THEN st
        ELSE IF sc = "nil" THEN [st EXCEPT !.fatal = "Prepare: unused plugin"]
        ELSE [ handlers |-> res.handlers,
               scans    |-> Append(st.scans,
                                   [prepare |-> n, plugin |-> i, rds |-> st.handlers]),
               fatal    |-> "none" ]

\* One iteration of the loop of ServeMux.Prepare, for plugin i in call n of
\* Prepare; st = [handlers, scans, fatal], and a panic ends the loop
PrepareStep(st, i, n) ==
    LET sc  == HandlersScanner(plugins[i])
        res == HandlersScannerProcess(sc, st.handlers)
    IN  IF st.fatal # "none" THEN st
        ELSE IF sc = "nil" THEN [st EXCEPT !.fatal = "Prepare: unused plugin"]
        ELSE [ handlers |-> res.handlers,
               scans    |-> Append(st.scans,
                                   [prepare |-> n, plugin |-> i, rds |-> st.handlers]),
               fatal    |-> IF res.err # "nil" THEN "Prepare: hook error" ELSE "none" ]

RECURSIVE PrepareLoop(_, _)
PrepareLoop(i, n) ==
    IF i = 0 THEN [handlers |-> handlers, scans |-> scans, fatal |-> fatal]
    ELSE PrepareStep(PrepareLoop(i - 1, n), i, n)

\* ServeMux.Prepare
Prepare ==
    /\ fatal = "none"
    /\ ~serving
    /\ prepares < MaxPrepares
    /\ prepares' = prepares + 1
    /\ handlers' = PrepareLoop(Len(plugins), prepares + 1).handlers
    /\ scans' = PrepareLoop(Len(plugins), prepares + 1).scans
    /\ fatal' = PrepareLoop(Len(plugins), prepares + 1).fatal
    /\ UNCHANGED <<middlewares, serving, r, picked, b, stack, w, wbody, log, plugins, parked>>

\* ServeMux.ListenAndServe: Prepare, then the server accepts requests
ListenAndServe ==
    /\ fatal = "none"
    /\ ~serving
    /\ prepares < MaxPrepares
    /\ prepares' = prepares + 1
    /\ handlers' = PrepareLoop(Len(plugins), prepares + 1).handlers
    /\ scans' = PrepareLoop(Len(plugins), prepares + 1).scans
    /\ fatal' = PrepareLoop(Len(plugins), prepares + 1).fatal
    /\ serving' = (PrepareLoop(Len(plugins), prepares + 1).fatal = "none")
    /\ UNCHANGED <<middlewares, r, picked, b, stack, w, wbody, log, plugins, parked>>

----------------------------------------------------------------------------
(* Dispatch *)

\* A frame of the call stack: Router.ServeHTTP (st = -1) or the stage with
\* index st.  pc: "pre" before the stage's own code has run, "call" about to
\* call b.Next(), "wait" inside b.Next(), "ret" after b.Next() returned err.
Frame(st, pc) == [st |-> st, pc |-> pc, calls |-> 0, err |-> "nil"]

Top == stack[Len(stack)]

\* An entry of the history: what happened (ev), in which frame (st), with
\* which error value (val); calls is the number of b.Next() calls the frame
\* has completed.
Event(ev, st, val, calls) == [ev |-> ev, st |-> st, val |-> val, calls |-> calls]

SetTop(f) == [stack EXCEPT ![Len(stack)] = f]

\* the stack after the top frame returned val to its caller
ReturnTo(val) ==
    LET n == Len(stack)
    IN  [i \in 1..(n - 1) |->
            IF i = n - 1
            THEN [stack[i] EXCEPT !.pc = "ret", !.err = val, !.calls = @ + 1]
            ELSE stack[i]]

\* Router.ServeHTTP up to its call of b.Next()
ServeHTTP(req) ==
    LET rd    == pickupBestRouteDefinition(handlers, req)
        m     == Match(handlers[rd].PathTemplate, encodedPathFromRequest(req))
    IN  /\ fatal = "none"
        /\ stack = <<>>
        /\ serving' = TRUE
        /\ r' = req
        /\ picked' = rd
        /\ log' = <<>>
        /\ IF rd = 0
           THEN /\ w' = 404
                /\ wbody' = ErrorText("404 page not found")
                /\ b' = NoBubble
                /\ stack' = <<>>
           ELSE IF ~m.ok
           THEN /\ w' = 500
                /\ wbody' = ErrorText("[ucon] invalid handler picked")
                /\ b' = NoBubble
                /\ stack' = <<>>
           ELSE /\ w' = 0
                /\ wbody' = NoBody
                /\ b' = newBubble(handlers[rd], m.params)
                /\ stack' = <<Frame(-1, "call")>>
        /\ UNCHANGED <<handlers, middlewares, prep, parked>>

\* QueuedStage taking the stages from the end of the list
QueuedStage_Reversed(qi, n) == n - 1 - qi

\* Bubble.Next, "qi := b.queueIndex; m := b.mux.middlewares[qi]": the index of
\* the stage that is invoked
QueuedStage(qi, n) == qi

\* AdvanceQueue stepping over a stage
AdvanceQueue_Skip(qi) == qi + 2

\* Bubble.Next, "b.queueIndex++"
AdvanceQueue(qi) == qi + 1

\* Bubble.Next, called by the top frame: enters the next stage, or runs
\* Bubble.do at the end of the chain
BubbleNext ==
    /\ stack # <<>>
    /\ Top.pc = "call"
    /\ IF b.queueIndex < Len(middlewares)
       THEN LET qi == QueuedStage(b.queueIndex, Len(middlewares))
            IN  /\ b' = [b EXCEPT !.queueIndex = AdvanceQueue(@)]
                /\ stack' = Append(SetTop([Top EXCEPT !.pc = "wait"]), Frame(qi, "pre"))
                /\ log' = log \o << Event("next", Top.st, "-", Top.calls),
                                     Event("enter", qi, "-", 0) >>
       ELSE \E returns \in CallResults(b.RequestHandler, b.Arguments) :
                /\ b' = do(b, returns)
                /\ stack' = SetTop([Top EXCEPT !.pc = "ret", !.err = doCheck(b),
                                                !.calls = @ + 1])
                /\ log' = log \o << Event("next", Top.st, "-", Top.calls),
                                     Event("do", Len(middlewares), doCheck(b), 0) >>
                             \o (IF doCheck(b) = "nil"
                                 THEN <<Event("handler", Len(middlewares), "-", 0)>>
                                 ELSE <<>>)
                             \o <<Event("recv", Top.st, doCheck(b), Top.calls + 1)>>
    /\ UNCHANGED <<handlers, middlewares, serving, r, picked, w, wbody, prep, parked>>

\* the argument slots after HTTPRWDI or ContextDI wrote every slot whose
\* declared type is one of types
Inject(bb, types) ==
    [bb EXCEPT !.Arguments =
        [idx \in 1..Len(bb.Arguments) |->
            IF idx <= Len(bb.ArgumentTypes) /\ bb.ArgumentTypes[idx] \in types
            THEN ValueOf(bb.ArgumentTypes[idx], "Bubble")
            ELSE bb.Arguments[idx]]]

\* the first unresolved argument slot whose declared type is a pointer to a
\* struct, 0 if there is none
RequestObjectIndex(bb) ==
    LET idxs == {idx \in 1..Len(bb.Arguments) :
                    /\ ~IsValid(bb.Arguments[idx])
                    /\ bb.ArgumentTypes[idx] \in {"obj", "req"}}
    IN  IF idxs = {} THEN 0
        ELSE CHOOSE idx \in idxs : \A j \in idxs : idx <= j

\* RequestObjectMapper with the body decoded first, the query applied last
RequestObjectMapper_BodyFirst(bb, req) ==
    LET argIdx == RequestObjectIndex(bb)
        argT   == bb.ArgumentTypes[argIdx]
        body   == MapBody(ZeroObject, argT, req)
        path   == MapPath(body.obj, argT, bb.Params, DOMAIN bb.Params)
        query  == MapQuery(path.obj, argT, req.Query)
    IN  IF argIdx = 0 THEN [err |-> "nil", b |-> bb]
        ELSE IF path.err # "nil" THEN [err |-> path.err, b |-> bb]
        ELSE IF query.err # "nil" THEN [err |-> query.err, b |-> bb]
        ELSE IF body.err # "nil" THEN [err |-> body.err, b |-> bb]
        ELSE [err |-> "nil",
              b   |-> [bb EXCEPT !.Arguments[argIdx] =
                          [type |-> argT, src |-> "RequestObjectMapper",
                           obj |-> query.obj]]]

\* RequestObjectMapper up to its call of b.Next(): [err, b]; the struct is
\* made from the path parameters, then the query, then the body
RequestObjectMapper(bb, req) ==
    LET argIdx == RequestObjectIndex(bb)
        argT   == bb.ArgumentTypes[argIdx]
        path   == MapPath(ZeroObject, argT, bb.Params, DOMAIN bb.Params)
        query  == MapQuery(path.obj, argT, req.Query)
        body   == MapBody(query.obj, argT, req)
    IN  IF argIdx = 0 THEN [err |-> "nil", b |-> bb]
        ELSE IF path.err # "nil" THEN [err |-> path.err, b |-> bb]
        ELSE IF query.err # "nil" THEN [err |-> query.err, b |-> bb]
        ELSE IF body.err # "nil" THEN [err |-> body.err, b |-> bb]
        ELSE [err |-> "nil",
              b   |-> [bb EXCEPT !.Arguments[argIdx] =
                          [type |-> argT, src |-> "RequestObjectMapper",
                           obj |-> body.obj]]]

\* the declared types RequestValidator passes over: *http.Request,
\* http.ResponseWriter and context.Context
FrameworkTypes == {"req", "resp", "ctx"}

\* What validator.Validate(v) can return: nil, a *golidator.ErrorReport (a
\* field broke a rule), an error without HTTPErrorResponse (golidator's
\* ErrValidateUnsupportedType), or an HTTPErrorResponse of the application's
\* own Validator
ValidateResults == {"nil", "ErrorReport", "ErrValidateUnsupportedType", ErrTeapot}

\* ValidationError wrapping every error in a validateError
ValidationError_WrapAll(err) == ErrValidate

\* the error RequestValidator returns for a non-nil error of Validate
ValidationError(err) ==
    IF err \in HTTPErrorResponses THEN err
    ELSE IF err = "ErrorReport" THEN ErrValidate
    ELSE err

\* The loop of RequestValidator over b.ArgumentTypes from idx on, calls being
\* the Validate calls made so far, as [arg, err]: the set of the ways it can
\* end, [err, panic, calls].  rv.IsNil() is evaluated before rv.IsValid(), and
\* reflect.Value.IsNil panics on the zero Value of an unresolved slot.
RECURSIVE RequestValidatorLoop(_, _, _)
RequestValidatorLoop(bb, idx, calls) ==
    IF idx > Len(bb.ArgumentTypes)
    THEN { [err |-> "nil", panic |-> FALSE, calls |-> calls] }
    ELSE IF bb.ArgumentTypes[idx] \in FrameworkTypes
    THEN RequestValidatorLoop(bb, idx + 1, calls)
    ELSE IF idx > Len(bb.Arguments) \/ ~IsValid(bb.Arguments[idx])
    THEN { [err |-> "nil", panic |-> TRUE, calls |-> calls] }
    ELSE UNION { IF e = "nil"
                 THEN RequestValidatorLoop(bb, idx + 1,
                          Append(calls, [arg |-> idx, err |-> e]))
                 ELSE { [err |-> ValidationError(e), panic |-> FALSE,
                         calls |-> Append(calls, [arg |-> idx, err |-> e])] }
                 : e \in ValidateResults }

\* the entries of the history for the Validate calls of a stage
ValidateEvents(st, calls) ==
    [k \in 1..Len(calls) |->
        [ev |-> "validate", st |-> st, val |-> calls[k].err, calls |-> 0,
         arg |-> calls[k].arg]]

\* RequestValidator, having run its loop as run: it calls b.Next(), returns
\* the error, or panics; the panic unwinds the dispatch (net/http recovers it
\* and closes the connection, nothing is written)
RequestValidator(run) ==
    IF run.panic
    THEN /\ stack' = <<>>
         /\ log' = log \o ValidateEvents(Top.st, run.calls)
                        \o <<Event("panic", Top.st, "-", Top.calls)>>
    ELSE IF run.err = "nil"
    THEN /\ stack' = SetTop([Top EXCEPT !.pc = "call"])
         /\ log' = log \o ValidateEvents(Top.st, run.calls)
                        \o <<Event("pre", Top.st, "-", Top.calls)>>
    ELSE /\ stack' = ReturnTo(run.err)
         /\ log' = log \o ValidateEvents(Top.st, run.calls)
                        \o << Event("return", Top.st, run.err, Top.calls),
                               Event("recv", stack[Len(stack) - 1].st, run.err,
                                     stack[Len(stack) - 1].calls + 1) >>

\* the top frame, a stage, returns val to its caller
StageReturn(val) ==
    /\ stack' = ReturnTo(val)
    /\ log' = log \o << Event("return", Top.st, val, Top.calls),
                         Event("recv", stack[Len(stack) - 1].st, val,
                               stack[Len(stack) - 1].calls + 1) >>

\* the top frame, a stage, goes on to call b.Next()
StageCall ==
    /\ stack' = SetTop([Top EXCEPT !.pc = "call"])
    /\ log' = log \o <<Event("pre", Top.st, "-", Top.calls)>>

\* The code of a stage before its first call of b.Next()
StagePre ==
    /\ stack # <<>>
    /\ Top.pc = "pre"
    /\ LET f == middlewares[Top.st + 1]
       IN  CASE f = "HTTPRWDI" ->
                    /\ b' = Inject(b, {"req", "resp"})
                    /\ StageCall
             [] f = "ContextDI" ->
                    /\ b' = Inject(b, {"ctx"})
                    /\ StageCall
             [] f = "UserDI" ->
                    /\ \/ \E idx \in 1..Len(b.ArgumentTypes) :
                            \E type \in {"obj", b.ArgumentTypes[idx]} :
                              b' = [b EXCEPT !.Arguments[idx] = ValueOf(type, "UserDI")]
                       \/ b' = [b EXCEPT !.Arguments = Append(@, ValueOf("obj", "UserDI"))]
                    /\ StageCall
             [] f = "RequestObjectMapper" ->
                    LET m == RequestObjectMapper(b, r)
                    IN  /\ b' = m.b
                        /\ IF m.err = "nil" THEN StageCall ELSE StageReturn(m.err)
             [] f = "RequestValidator" ->
                    /\ b' = b
                    /\ \E run \in RequestValidatorLoop(b, 1, <<>>) :
                          RequestValidator(run)
             [] f = "Gate" ->
                    /\ b' = b
                    /\ \/ StageCall
                       \/ \E val \in {"nil", "ErrCSRFBadToken"} : StageReturn(val)
             [] OTHER ->
                    /\ b' = b
                    /\ StageCall
    /\ UNCHANGED <<handlers, middlewares, serving, r, picked, w, wbody, prep, parked>>

\* the last non-nil error among the handler's return values, "nil" if none
ReturnedError(returns) ==
    LET errs == {i \in 1..Len(returns) :
                    returns[i].type = "error" /\ returns[i].val # "nil"}
    IN  IF errs = {} THEN "nil"
        ELSE returns[CHOOSE i \in errs : \A j \in errs : j <= i].val

\* ResponseMapper after b.Next() returned err: the status afterwards
ResponseMapperWrite(status, err, returns) ==
    IF err # "nil" THEN writeErrorObject(status, err)
    ELSE IF ReturnedError(returns) # "nil"
    THEN writeErrorObject(status, ReturnedError(returns))
    ELSE IF \E i \in 1..Len(returns) : returns[i].type # "error"
    THEN WriteHeader(status, 200)
    ELSE status

\* ResponseMapper after b.Next() returned err: the body afterwards
ResponseMapperBody(body, err, returns) ==
    LET payloads == {i \in 1..Len(returns) : returns[i].type # "error"}
        rv       == returns[CHOOSE i \in payloads : \A j \in payloads : i <= j]
    IN  IF err # "nil" THEN Write(body, MarshalError(err))
        ELSE IF ReturnedError(returns) # "nil"
        THEN Write(body, MarshalError(ReturnedError(returns)))
        ELSE IF payloads = {} THEN body
        ELSE IF ~rv.val.nil THEN Write(body, Marshal(rv.val))
        ELSE Write(body, <<Tok("{"), Tok("}")>>)

\* The code of a stage after a call of b.Next() returned
StagePost ==
    /\ stack # <<>>
    /\ Top.st >= 0
    /\ Top.pc = "ret"
    /\ LET f == middlewares[Top.st + 1]
       IN  CASE f = "ResponseMapper" ->
                    /\ w' = ResponseMapperWrite(w, Top.err, b.Returns)
                    /\ wbody' = ResponseMapperBody(wbody, Top.err, b.Returns)
                    /\ StageReturn("nil")
             [] f = "Twice" /\ Top.calls < 2 ->
                    /\ UNCHANGED <<w, wbody>>
                    /\ stack' = SetTop([Top EXCEPT !.pc = "call"])
                    /\ log' = log \o <<Event("post", Top.st, Top.err, Top.calls)>>
             [] OTHER ->
                    /\ UNCHANGED <<w, wbody>>
                    /\ StageReturn(Top.err)
    /\ UNCHANGED <<handlers, middlewares, serving, r, picked, b, prep, parked>>

\* Router.ServeHTTP after b.Next() returned
RouterFinish ==
    /\ stack # <<>>
    /\ Top.st = -1
    /\ Top.pc = "ret"
    /\ w' = IF Top.err # "nil" THEN WriteHeader(w, 500) ELSE w
    /\ wbody' = IF Top.err # "nil" THEN Write(wbody, ErrorText(Top.err)) ELSE wbody
    /\ stack' = <<>>
    /\ log' = log \o <<Event("done", -1, Top.err, Top.calls)>>
    /\ UNCHANGED <<handlers, middlewares, serving, r, picked, b, prep, parked>>

----------------------------------------------------------------------------
(* Specifications *)

Init ==
    /\ handlers = <<>>
    /\ middlewares = <<>>
    /\ serving = FALSE
    /\ r = NoRequest
    /\ picked = 0
    /\ b = NoBubble
    /\ stack = <<>>
    /\ w = 0
    /\ wbody = NoBody
    /\ log = <<>>
    /\ plugins = <<>>
    /\ prepares = 0
    /\ scans = <<>>
    /\ fatal = "none"
    /\ parked = <<>>

\* paths, as strings
PathRoot  == <<"/">>
PathA     == <<"/", "a">>
PathASl   == <<"/", "a", "/">>
PathAX    == <<"/", "a", "/", "x">>
PathAXY   == <<"/", "a", "/", "x", "y">>
PathAXSlY == <<"/", "a", "/", "x", "/", "y">>
PathAEscX == <<"/", "a", "%2F", "x">>
PathABar   == <<"/", "a", "/", "{", "b", "a", "r", "}">>
PathABarSl == <<"/", "a", "/", "{", "b", "a", "r", "}", "/">>
PathAB     == <<"/", "a", "/", "b">>
PathABC    == <<"/", "a", "/", "b", "/", "c">>
PathUsers       == <<"/", "u", "s", "e", "r", "s">>
PathUsersSl     == <<"/", "u", "s", "e", "r", "s", "/">>
PathUsers1      == <<"/", "u", "s", "e", "r", "s", "/", "1">>
PathUsersFooBar == <<"/", "u", "s", "e", "r", "s", "/", "f", "o", "o", "/", "b", "a", "r">>
PathUsersId     == <<"/", "u", "s", "e", "r", "s", "/", "{", "i", "d", "}">>

\* The chain specification: one route, every chain of stages, requests that
\* hit and miss the route
ChainRequests ==
    { PlainRequest("GET", PathA),
      PlainRequest("POST", PathA),
      PlainRequest("GET", PathRoot) }

HandleChain ==
    \E hc \in HandlerFuncs : Handle(MethodString("GET"), PathA, hc, 1)

RegisterMiddleware == \E f \in MiddlewareFuncs : Middleware(f)

Serve == \E req \in ChainRequests : ServeHTTP(req)

Next ==
    \/ HandleChain
    \/ RegisterMiddleware
    \/ Serve
    \/ BubbleNext
    \/ StagePre
    \/ StagePost
    \/ RouterFinish

Spec == Init /\ [][Next]_vars

\* A dispatch is a chain of synchronous calls: once ServeHTTP has begun, every
\* stage and the handler run until they return.
Dispatch == BubbleNext \/ StagePre \/ StagePost \/ RouterFinish

FairSpec == Spec /\ WF_vars(Dispatch)

\* The routing specification: every table of up to MaxRoutes routes over the
\* templates "/", "/a", "/a/", "/a/x", "/a/{bar}", "/a/{bar}/", "/users/{id}"
\* and the methods "*", "GET", "HEAD", no middleware, and requests for
\* "/", "/a", "/a/", "/a/x", "/a/xy", "/a/x/y", "/a%2Fx", "/a/b", "/a/b/c",
\* "/users", "/users/", "/users/1", "/users/foo/bar".  Route selection
\* depends on the table and the request only, so one request is served per table.
RouterTemplates == {PathRoot, PathA, PathASl, PathAX, PathABar, PathABarSl, PathUsersId}

RouterMethods == {"*", "GET", "HEAD"}

RouterRequests ==
    { PlainRequest(m, p) :
        m \in {"GET", "HEAD", "POST"},
        p \in {PathRoot, PathA, PathASl, PathAX, PathAXY, PathAXSlY, PathAEscX,
               PathAB, PathABC, PathUsers, PathUsersSl, PathUsers1, PathUsersFooBar} }

PlainHandler == [In |-> <<>>, Out |-> <<>>]

HandleRouter ==
    \E m \in RouterMethods, p \in RouterTemplates : Handle(MethodString(m), p, PlainHandler, MaxRoutes)

ServeRouter == ~serving /\ \E req \in RouterRequests : ServeHTTP(req)

NextRouter ==
    \/ HandleRouter
    \/ ServeRouter
    \/ BubbleNext
    \/ RouterFinish

SpecRouter == Init /\ [][NextRouter]_vars

\* The mapping specification: the Orthodox chain, one route PUT "/a/{id}" or
\* PUT "/a/{bar}" (a variable the request struct has no field for) to a
\* handler that takes the request struct, and PUT requests for /a/1 and /a/x
\* with a query, a Content-Type and a body.
PathAId == <<"/", "a", "/", "{", "i", "d", "}">>
PathA1  == <<"/", "a", "/", "1">>

Str100 == <<"1", "0", "0">>
StrHi  == <<"H", "i", "!">>

MapperHandlerFuncs ==
    { [In |-> <<"obj">>,        Out |-> <<"obj", "error">>],
      [In |-> <<"ctx", "obj">>, Out |-> <<"obj", "error">>] }

QueryParam(key, values) == [key |-> key, values |-> values]

MapperQueries ==
    { {},
      {QueryParam(KeyOffset, <<Str100>>)},
      {QueryParam(KeyId, << <<"2">>, <<"3">> >>)},
      {QueryParam(KeyText, << <<"q">> >>)},
      {QueryParam(KeyOffset, << <<"x">> >>)},
      {QueryParam(KeyBar, << <<"7">> >>)},
      {QueryParam(KeyId, << <<"2">> >>), QueryParam(KeyText, << <<"q">> >>)},
      {QueryParam(KeyTags, << <<"3">>, <<"1">>, <<"2">> >>)},
      {QueryParam(KeyTags, << <<"7">> >>)},
      {QueryParam(KeyTags, << <<"1">>, <<"x">> >>)} }

MapperContentTypes ==
    { <<>>,
      <<"application/json">>,
      <<"application/json", ";", "charset=utf-8">>,
      <<"text/plain">> }

MapperBodies ==
    { NoBody,
      <<Tok("{"), Tok("}")>>,
      <<Tok("["), Tok("]")>>,
      <<Tok("x"), Tok("y")>>,
      <<Tok("{")>>,
      <<Tok("{"), Member(KeyText, JStr(StrHi)), Tok("}")>>,
      <<Tok("{"), Member(KeyId, JNum(3)), Tok("}")>>,
      <<Tok("{"), Member(KeyOffset, JNum(5)), Tok("}")>>,
      <<Tok("{"), Member(KeyId, JNum(3)), Member(KeyOffset, JNum(5)), Tok("}")>>,
      <<Tok("{"), Member(KeyOffset, JStr(<<"x">>)), Tok("}")>>,
      <<Tok("["), Member(KeyText, JStr(StrHi)), Tok("]")>> }

MapperRequests ==
    { Request("PUT", p, q, ct, body) :
        p \in {PathA1, PathAX}, q \in MapperQueries,
        ct \in MapperContentTypes, body \in MapperBodies }

HandleMapper ==
    \E p \in {PathAId, PathABar}, hc \in MapperHandlerFuncs : Handle(MethodString("PUT"), p, hc, 1)

ServeMapper ==
    /\ ~serving
    /\ middlewares # <<>>
    /\ \E req \in MapperRequests : ServeHTTP(req)

NextMapper ==
    \/ HandleMapper
    \/ Orthodox
    \/ ServeMapper
    \/ BubbleNext
    \/ StagePre
    \/ StagePost
    \/ RouterFinish

SpecMapper == Init /\ [][NextMapper]_vars

\* The plugin specification: routes GET "/a" and GET "/", up to MaxPlugins
\* plugins, up to MaxPrepares calls of Prepare, no middleware, and GET
\* requests for /a and /api/swagger.json, one request per run.
HandlePlugin ==
    \E p \in {PathA, PathRoot} : Handle(MethodString("GET"), p, PlainHandler, MaxRoutes)

RegisterPlugin == \E plugin \in PluginBases : Plugin(plugin)

ServePlugin ==
    /\ r = NoRequest
    /\ \E p \in {PathA, PathSwagger} : ServeHTTP(PlainRequest("GET", p))

NextPlugin ==
    \/ HandlePlugin
    \/ RegisterPlugin
    \/ Prepare
    \/ ListenAndServe
    \/ ServePlugin
    \/ BubbleNext
    \/ RouterFinish

SpecPlugin == Init /\ [][NextPlugin]_vars

\* The validation specification: one route GET "/a" to a handler that takes a
\* context and a request struct, two request structs, or the writer and the
\* request; every chain of up to MaxStages stages among the four standard
\* stages, RequestValidator and an application stage that resolves a slot;
\* the request GET /a.
ValidatorHandlerFuncs ==
    { [In |-> <<"ctx", "obj">>,  Out |-> <<"obj", "error">>],
      [In |-> <<"obj", "obj">>,  Out |-> <<>>],
      [In |-> <<"resp", "req">>, Out |-> <<>>] }

ValidatorStages ==
    {"ResponseMapper", "HTTPRWDI", "ContextDI", "RequestObjectMapper",
     "RequestValidator", "UserDI"}

HandleValidator ==
    \E hc \in ValidatorHandlerFuncs : Handle(MethodString("GET"), PathA, hc, 1)

RegisterValidatorStage == \E f \in ValidatorStages : Middleware(f)

ServeValidator ==
    /\ ~serving
    /\ ServeHTTP(PlainRequest("GET", PathA))

NextValidator ==
    \/ HandleValidator
    \/ RegisterValidatorStage
    \/ ServeValidator
    \/ BubbleNext
    \/ StagePre
    \/ StagePost
    \/ RouterFinish

SpecValidator == Init /\ [][NextValidator]_vars

\* The registration specification: ServeMux.Handle with the method strings
\* "GET", "get,post", "Get,HEAD,*" and "put,", the paths "/a" and "/a/{id}",
\* handlers func(), func(w, r) and a value that is no function, up to
\* MaxRoutes + 2 routes, no middleware, and one request for /a.
StrGetPost     == <<"g", "e", "t", ",", "p", "o", "s", "t">>
StrGetHeadStar == <<"G", "e", "t", ",", "H", "E", "A", "D", ",", "*">>
StrPutComma    == <<"p", "u", "t", ",">>

HandleMethods == {MethodString("GET"), StrGetPost, StrGetHeadStar, StrPutComma}

HandlePaths == {PathA, PathAId}

HandleHandlers == {PlainHandler, [In |-> <<"resp", "req">>, Out |-> <<>>], NotAFunction}

MaxHandleRoutes == MaxRoutes + 2

HandleList ==
    \E method \in HandleMethods, p \in HandlePaths, hc \in HandleHandlers :
        Handle(method, p, hc, MaxHandleRoutes)

ServeHandle ==
    /\ ~serving
    /\ \E m \in {"GET", "POST", "HEAD"} : ServeHTTP(PlainRequest(m, PathA))

NextHandle ==
    \/ HandleList
    \/ ServeHandle
    \/ BubbleNext
    \/ RouterFinish

SpecHandle == Init /\ [][NextHandle]_vars

\* The binding specification: one route PUT "/a/{id}" or PUT "/a/{bar}" (a
\* variable the request struct has no field for) to a handler that takes the
\* request struct or the writer and the request; every chain of up to
\* MaxStages stages among ResponseMapper, RequestObjectMapper, HTTPRWDI, the
\* Logger and a stage that calls b.Next() twice; the request PUT /a/1.
BindingHandlerFuncs ==
    { [In |-> <<"obj">>,         Out |-> <<"obj", "error">>],
      [In |-> <<"resp", "req">>, Out |-> <<>>] }

BindingStages == {"ResponseMapper", "RequestObjectMapper", "HTTPRWDI", "Logger", "Twice"}

HandleBinding ==
    \E p \in {PathAId, PathABar}, hc \in BindingHandlerFuncs :
        Handle(MethodString("PUT"), p, hc, 1)

RegisterBindingStage == \E f \in BindingStages : Middleware(f)

ServeBinding ==
    /\ ~serving
    /\ ServeHTTP(PlainRequest("PUT", PathA1))

NextBinding ==
    \/ HandleBinding
    \/ RegisterBindingStage
    \/ ServeBinding
    \/ BubbleNext
    \/ StagePre
    \/ StagePost
    \/ RouterFinish

SpecBinding == Init /\ [][NextBinding]_vars

\* The startup specification: the routes of the binding specification, the
\* Orthodox chain, up to MaxPlugins plugins (a scanner or the swagger plugin),
\* up to MaxPrepares calls of Prepare or ListenAndServe, and the request
\* PUT /a/1, served by the mux after ListenAndServe or as an http.Handler.
RegisterStartupPlugin == \E plugin \in {"scanner", "swagger"} : Plugin(plugin)

ServeStartup ==
    /\ r = NoRequest
    /\ ServeHTTP(PlainRequest("PUT", PathA1))

NextStartup ==
    \/ HandleBinding
    \/ Orthodox
    \/ RegisterStartupPlugin
    \/ Prepare
    \/ ListenAndServe
    \/ ServeStartup
    \/ BubbleNext
    \/ StagePre
    \/ StagePost
    \/ RouterFinish

SpecStartup == Init /\ [][NextStartup]_vars

\* The concurrency specification: the route PUT "/a/{id}" to a handler that
\* takes the request struct, the Orthodox chain, and up to MaxInFlight
\* requests, PUT /a/1 or PUT /a/1?offset=x, in flight at once.  net/http
\* serves every connection in a goroutine of its own, which calls
\* ServeMux.ServeHTTP; one goroutine runs at a time and the others are parked,
\* each with the request, the Bubble, the call stack and the ResponseWriter
\* that are local to it.  The goroutines are scheduled at any step.
ConcurrentRequests ==
    { Request("PUT", PathA1, q, <<>>, NoBody) :
        q \in { {}, {QueryParam(KeyOffset, << <<"x">> >>)} } }

\* what is local to the goroutine that runs
Running ==
    [ r |-> r, picked |-> picked, b |-> b, stack |-> stack, w |-> w,
      wbody |-> wbody, log |-> log ]

\* a goroutine that has not called ServeHTTP yet
Accepted ==
    [ r |-> NoRequest, picked |-> 0, b |-> NoBubble, stack |-> <<>>, w |-> 0,
      wbody |-> NoBody, log |-> <<>> ]

\* the goroutine g is the one that runs
Resume(g) ==
    /\ r' = g.r
    /\ picked' = g.picked
    /\ b' = g.b
    /\ stack' = g.stack
    /\ w' = g.w
    /\ wbody' = g.wbody
    /\ log' = g.log

\* http.Server accepts another connection and starts a goroutine for it
Accept ==
    /\ serving
    /\ r # NoRequest
    /\ Len(parked) < MaxInFlight - 1
    /\ parked' = Append(parked, Running)
    /\ Resume(Accepted)
    /\ UNCHANGED <<handlers, middlewares, serving, prep>>

\* the scheduler parks the running goroutine and resumes another
Yield ==
    /\ \E i \in 1..Len(parked) :
          /\ parked' = [parked EXCEPT ![i] = Running]
          /\ Resume(parked[i])
    /\ UNCHANGED <<handlers, middlewares, serving, prep>>

HandleConcurrent ==
    Handle(MethodString("PUT"), PathAId, [In |-> <<"obj">>, Out |-> <<"obj", "error">>], 1)

ServeConcurrent ==
    /\ handlers # <<>>
    /\ middlewares # <<>>
    /\ r = NoRequest
    /\ \E req \in ConcurrentRequests : ServeHTTP(req)

NextConcurrent ==
    \/ HandleConcurrent
    \/ Orthodox
    \/ ServeConcurrent
    \/ Accept
    \/ Yield
    \/ BubbleNext
    \/ StagePre
    \/ StagePost
    \/ RouterFinish

SpecConcurrent == Init /\ [][NextConcurrent]_vars

----------------------------------------------------------------------------
(* Route selection: C3 - C7, checked under SpecRouter *)

\* the method tier and the path tier of entry i for the request being served
Score(i) == <<methodMatchRate(handlers[i], r), pathMatchRate(handlers[i], r)>>

Eligible(i) == Score(i)[1] # noMethodMatch /\ Score(i)[2] # noPathMatch

HasVariable(rd) ==
    \E k \in 1..Len(rd.PathTemplate.isVariables) : rd.PathTemplate.isVariables[k]

Template(i) == handlers[i].PathTemplate.PathTemplate

\* the request is issued exactly as entry i, whose template has no variable
IssuedAs(i) ==
    /\ serving
    /\ ~HasVariable(handlers[i])
    /\ r.Method = handlers[i].Method
    /\ URLPath(r) = Template(i)

\* C3 as claimed: a request issued exactly as the method and path of an entry
\* E without variable segments is resolved to E, whatever else is registered.
C3_IssuedAsEntryReturnsEntry ==
    \A i \in 1..Len(handlers) :
        IssuedAs(i) => picked # 0 /\ handlers[picked] = handlers[i]

\* C3 as amended: such a request is resolved to the earliest-registered entry
\* that has E's method tier (exact) and E's path tier for the request; that is
\* E or an entry registered before E.
C3_IssuedAsEntryReturnsEarliestTie ==
    \A i \in 1..Len(handlers) :
        IssuedAs(i) =>
            /\ picked \in 1..i
            /\ Score(i)[1] = exactMethodMatch
            /\ Score(picked) = Score(i)
            /\ \A j \in 1..(picked - 1) : Score(j) # Score(i)

C3_Witness ==
    \E i \in 1..Len(handlers) :
        /\ IssuedAs(i)
        /\ picked \in 1..(i - 1)
        /\ HasVariable(handlers[picked])

\* C4: of a "*" entry and a concrete-method entry with the same template, a
\* request with the concrete method whose path matches is never resolved to
\* the "*" entry; when the table holds just the two, it is resolved to the
\* concrete-method entry, in either registration order.
C4_ConcreteMethodBeatsWildcard ==
    \A i, j \in 1..Len(handlers) :
        ( /\ serving
          /\ handlers[i].Method = "*"
          /\ handlers[j].Method = r.Method
          /\ Template(i) = Template(j)
          /\ pathMatchRate(handlers[j], r) # noPathMatch )
        => /\ picked # 0
           /\ picked # i
           /\ Len(handlers) = 2 => picked = j

C4_Witness ==
    /\ serving
    /\ Len(handlers) = 2
    /\ handlers[1].Method = "*"
    /\ handlers[2].Method = r.Method
    /\ Template(1) = Template(2)
    /\ picked = 2

\* C5 as claimed: with the two same-method entries "/a/" and "/a/{bar}/"
\* registered, in either order, a request for /a/x/y is resolved to the
\* "/a/{bar}/" entry.
C5_VariableTemplateBeatsOpenTemplate ==
    \A i, j \in 1..Len(handlers) :
        ( /\ serving
          /\ Len(handlers) = 2
          /\ Template(i) = PathASl
          /\ Template(j) = PathABarSl
          /\ handlers[i].Method = handlers[j].Method
          /\ methodMatchRate(handlers[i], r) # noMethodMatch
          /\ URLPath(r) = PathAXSlY )
        => picked = j

\* C6: the selected entry is the earliest-registered entry among the entries
\* with its method tier and path tier: no entry registered before it has the
\* same pair of tiers.
C6_EarliestOfEqualScoreWins ==
    (serving /\ picked # 0) =>
        \A j \in 1..(picked - 1) : Score(j) # Score(picked)

C6_Witness ==
    /\ serving
    /\ picked # 0
    /\ \E j \in (picked + 1)..Len(handlers) :
          Score(j) = Score(picked) /\ handlers[j] # handlers[picked]

\* C7: a HEAD request is resolved to a GET entry when no other entry is
\* eligible; of a HEAD entry and a GET entry with the same template the HEAD
\* entry is selected, and of a GET entry and a "*" entry with the same template
\* the GET entry is selected, in either registration order.
C7_HeadRequest ==
    (serving /\ r.Method = "HEAD") =>
        \A i \in 1..Len(handlers) :
            /\ ( /\ handlers[i].Method = "GET"
                 /\ pathMatchRate(handlers[i], r) # noPathMatch
                 /\ \A j \in 1..Len(handlers) : j # i => ~Eligible(j) )
               => picked = i
            /\ \A j \in 1..Len(handlers) :
                 ( /\ Len(handlers) = 2
                   /\ Template(i) = Template(j)
                   /\ pathMatchRate(handlers[i], r) # noPathMatch
                   /\ \/ handlers[i].Method = "HEAD" /\ handlers[j].Method = "GET"
                      \/ handlers[i].Method = "GET" /\ handlers[j].Method = "*" )
                 => picked = i

C7_Witness ==
    /\ serving
    /\ r.Method = "HEAD"
    /\ Len(handlers) = 2
    /\ handlers[1].Method = "GET"
    /\ handlers[2].Method = "HEAD"
    /\ Template(1) = Template(2)
    /\ picked = 2

\* the request has the method and the decoded path
RequestIs(method, path) == serving /\ r.Method = method /\ URLPath(r) = path

\* entry i is registered with the method and the template
EntryIs(i, method, tmpl) == handlers[i].Method = method /\ Template(i) = tmpl

\* the request is resolved to an entry registered like entry i
ResolvedTo(i) == picked # 0 /\ handlers[picked] = handlers[i]

\* C17: a GET "/a/" entry is selected for GET /a/b and GET /a/b/c when it is
\* the only entry, and a Bubble is made for it; for POST /a/b and for GET /a
\* it is never selected, whatever else is registered.
C17_OpenTemplate ==
    \A i \in 1..Len(handlers) :
        EntryIs(i, "GET", PathASl) =>
            /\ (RequestIs("GET", PathAB) \/ RequestIs("GET", PathABC)) =>
                  (Len(handlers) = 1 => picked = i /\ w # 404 /\ w # 500)
            /\ (RequestIs("POST", PathAB) \/ RequestIs("GET", PathA)) =>
                  ~ResolvedTo(i)

C17_Witness ==
    /\ Len(handlers) = 1
    /\ EntryIs(1, "GET", PathASl)
    /\ RequestIs("GET", PathABC)
    /\ picked = 1
    /\ b.exists

\* C18: with (A) GET "/a" and (B) GET "/a/" registered, GET /a is never
\* resolved to (B) and GET /a/b never to (A), whatever else is registered;
\* when the table holds just the two, in either order, GET /a is resolved to
\* (A) and GET /a/b to (B).
C18_ExactAndOpenTemplate ==
    \A i, j \in 1..Len(handlers) :
        (EntryIs(i, "GET", PathA) /\ EntryIs(j, "GET", PathASl)) =>
            /\ RequestIs("GET", PathA) =>
                  /\ picked # 0
                  /\ ~ResolvedTo(j)
                  /\ Len(handlers) = 2 => picked = i
            /\ RequestIs("GET", PathAB) =>
                  /\ picked # 0
                  /\ ~ResolvedTo(i)
                  /\ Len(handlers) = 2 => picked = j

C18_Witness ==
    /\ Len(handlers) = 2
    /\ EntryIs(1, "GET", PathA)
    /\ EntryIs(2, "GET", PathASl)
    /\ RequestIs("GET", PathAB)
    /\ picked = 2

\* C19: a GET "/users/{id}" entry, when it is the only entry, is selected for
\* GET /users/1 with id bound to "1" and for GET /users/foo/bar with id bound
\* to "foo"; for GET /users and GET /users/ it is never selected.
C19_VariableTemplate ==
    \A i \in 1..Len(handlers) :
        EntryIs(i, "GET", PathUsersId) =>
            /\ (RequestIs("GET", PathUsers1) /\ Len(handlers) = 1) =>
                  /\ picked = i
                  /\ b.exists
                  /\ DOMAIN b.Params = {KeyId}
                  /\ b.Params[KeyId] = <<"1">>
            /\ (RequestIs("GET", PathUsersFooBar) /\ Len(handlers) = 1) =>
                  /\ picked = i
                  /\ b.exists
                  /\ DOMAIN b.Params = {KeyId}
                  /\ b.Params[KeyId] = <<"f", "o", "o">>
            /\ (RequestIs("GET", PathUsers) \/ RequestIs("GET", PathUsersSl)) =>
                  ~ResolvedTo(i)

C19_Witness ==
    /\ Len(handlers) = 1
    /\ EntryIs(1, "GET", PathUsersId)
    /\ RequestIs("GET", PathUsersFooBar)
    /\ picked = 1
    /\ b.exists
    /\ b.Params[KeyId] = <<"f", "o", "o">>

----------------------------------------------------------------------------
(* The middleware chain: C1, C2, C8 - C10 *)

Events(ev) == {k \in 1..Len(log) : log[k].ev = ev}

HandlerCalls(l) == Cardinality({k \in 1..Len(l) : l[k].ev = "handler"})

\* the dispatch is over: Router.ServeHTTP has returned
Done == Events("done") # {}

\* C1 as claimed: once a stage has returned without calling b.Next(), no stage
\* with a higher index is invoked in the dispatch, the handler is not invoked,
\* Handled is false, and the value the stage returned is what the b.Next()
\* of the stage before it (the Router for stage 0) receives.
C1_ShortCircuit ==
    \A k \in Events("return") :
        log[k].calls = 0 =>
            /\ \A j \in Events("enter") : log[j].st <= log[k].st
            /\ Events("handler") = {}
            /\ ~b.Handled
            /\ k < Len(log)
            /\ log[k + 1].ev = "recv"
            /\ log[k + 1].st = log[k].st - 1
            /\ log[k + 1].val = log[k].val

\* every stage has been invoked once, has called b.Next() once and has returned
EveryStageCalledNextOnce ==
    \A i \in 0..(Len(middlewares) - 1) :
        /\ Cardinality({k \in Events("enter") : log[k].st = i}) = 1
        /\ \E k \in Events("return") : log[k].st = i /\ log[k].calls = 1

\* the history without the b.Next() calls: which code ran, in which frame
Ran ==
    LET sel == SelectSeq(log, LAMBDA e : e.ev \in {"pre", "do", "recv", "return"})
    IN  [k \in 1..Len(sel) |-> <<sel[k].ev, sel[k].st>>]

\* stages 0 .. n-1 before b.Next(), the end of the chain, then for
\* i = n-1 .. 0 the return of the b.Next() of stage i and the return of stage i,
\* and at last the return of the Router's b.Next()
Nested(n) ==
    [k \in 1..n |-> <<"pre", k - 1>>]
    \o << <<"do", n>> >>
    \o [k \in 1..(2 * n) |->
            IF k % 2 = 1 THEN <<"recv", n - 1 - ((k - 1) \div 2)>>
            ELSE <<"return", n - (k \div 2)>>]
    \o << <<"recv", -1>> >>

\* C2: when every stage calls b.Next() exactly once, the code before b.Next()
\* runs in registration order, then the end of the chain is reached, where the
\* handler runs, then the code after b.Next() runs in the reverse order; the
\* b.Next() of stage i returns after the handler and after every stage j > i
\* has returned.
C2_NestedOrder ==
    (Done /\ EveryStageCalledNextOnce) =>
        /\ Ran = Nested(Len(middlewares))
        /\ \A k \in Events("handler") :
              /\ log[k - 1].ev = "do"
              /\ \A j \in Events("pre") : j < k
              /\ \A j \in Events("return") : k < j

C2_Witness ==
    /\ Done
    /\ EveryStageCalledNextOnce
    /\ Len(middlewares) >= 2
    /\ middlewares[1] # middlewares[2]
    /\ Events("handler") # {}

\* C8: when no entry has a non-zero method tier and a non-zero path tier for
\* the request, the response is not-found, no Bubble is created, no stage and
\* no handler is invoked.
C8_RoutingMiss ==
    (serving /\ \A i \in 1..Len(handlers) : ~Eligible(i)) =>
        /\ w = 404
        /\ ~b.exists
        /\ stack = <<>>
        /\ log = <<>>

C8_Witness ==
    /\ serving
    /\ handlers # <<>>
    /\ middlewares # <<>>
    /\ \A i \in 1..Len(handlers) : ~Eligible(i)
    /\ w = 404

\* b.Next() is about to run Bubble.do
AtChainEnd ==
    /\ stack # <<>>
    /\ Top.pc = "call"
    /\ b.queueIndex >= Len(middlewares)

LengthsAgree(bb) ==
    /\ Len(bb.Arguments) = Len(bb.ArgumentTypes)
    /\ Len(bb.Arguments) = Len(bb.RequestHandler.In)

ArgumentsResolved(bb) ==
    /\ LengthsAgree(bb)
    /\ \A idx \in 1..Len(bb.Arguments) :
          /\ IsValid(bb.Arguments[idx])
          /\ bb.Arguments[idx].type = bb.RequestHandler.In[idx]

\* C9: at the end of the chain the handler is invoked only if the lengths of
\* Arguments, ArgumentTypes and the handler's parameters agree and every
\* argument is resolved and assignable; otherwise b.Next() returns
\* ErrInvalidArgumentLength or ErrInvalidArgumentValue, the handler is not
\* invoked, Returns stays empty and Handled stays false.
C9_ArgumentCheck ==
    [][ /\ HandlerCalls(log') > HandlerCalls(log) =>
              AtChainEnd /\ ArgumentsResolved(b)
        /\ (AtChainEnd /\ ~ArgumentsResolved(b)) =>
              /\ HandlerCalls(log') = HandlerCalls(log)
              /\ b.Returns = <<>> /\ b'.Returns = <<>>
              /\ ~b.Handled /\ ~b'.Handled
              /\ stack'[Len(stack')].pc = "ret"
              /\ stack'[Len(stack')].err =
                    IF LengthsAgree(b) THEN "ErrInvalidArgumentValue"
                    ELSE "ErrInvalidArgumentLength" ]_vars

C9_Witness ==
    /\ stack # <<>>
    /\ Top.pc = "ret"
    /\ Top.err = "ErrInvalidArgumentLength"
    /\ \E k \in Events("do") : log[k].val = "ErrInvalidArgumentLength"
    /\ ~b.Handled

\* a stage has returned without calling b.Next()
SomeStageDeclined == \E k \in Events("return") : log[k].calls = 0

\* the end of the chain was reached with arguments that fail the check
ArgumentsRejected == Events("do") # {} /\ ~ArgumentsResolved(b)

\* C10: in a dispatch in which every stage calls b.Next() and the argument
\* slots are validly resolved the handler is eventually executed, and the
\* handler is executed only after every stage of the chain has been entered.
C10_HandlerEventually ==
    /\ (stack # <<>>) ~>
          (Events("handler") # {} \/ SomeStageDeclined \/ ArgumentsRejected)
    /\ [](\A k \in Events("handler") :
            \A i \in 0..(Len(middlewares) - 1) :
                \E j \in Events("enter") : j < k /\ log[j].st = i)

C10_Witness ==
    /\ Len(middlewares) >= 2
    /\ Events("handler") # {}
    /\ ~SomeStageDeclined
    /\ b.RequestHandler.In # <<>>

\* the stage at the top of the stack is about to run its code before b.Next()
StageStarts(f) ==
    /\ stack # <<>>
    /\ Top.pc = "pre"
    /\ middlewares[Top.st + 1] = f

\* C20 as claimed: HTTPRWDI, ContextDI and RequestObjectMapper write only to
\* argument slots that are unresolved when the stage is invoked: a slot that
\* holds a value keeps that value.
C20_ResolvedSlotsKept ==
    [][ (StageStarts("HTTPRWDI") \/ StageStarts("ContextDI")
            \/ StageStarts("RequestObjectMapper")) =>
          \A idx \in 1..Len(b.Arguments) :
              IsValid(b.Arguments[idx]) => b'.Arguments[idx] = b.Arguments[idx] ]_vars

----------------------------------------------------------------------------
(* The request struct: C11 - C13, checked under SpecMapper *)

RequestFields == {"id", "offset", "text"}

JSONContentType == <<"application/json">>

\* the request struct that RequestObjectMapper put among the arguments
IsMapped == \E idx \in 1..Len(b.Arguments) : b.Arguments[idx].src = "RequestObjectMapper"

MappedObject ==
    b.Arguments[CHOOSE idx \in 1..Len(b.Arguments) :
                    b.Arguments[idx].src = "RequestObjectMapper"].obj

\* a string as a value of field f
Converted(f, str) == IF f = "text" THEN str ELSE ParseInt(str).v

Convertible(f, str) == f = "text" \/ ParseInt(str).ok

\* the body is one the mapper decodes: JSON by the first token of the
\* Content-Type, and neither empty nor two bytes long
BodyDecoded(req) ==
    /\ SplitOn(req.ContentType, ";")[1] = JSONContentType
    /\ Len(req.Body) \notin {0, 2}

BodyMembers(req, f) ==
    {i \in 2..(Len(req.Body) - 1) : req.Body[i].key = structFieldToKey(f)}

BodySupplies(req, f) ==
    /\ BodyDecoded(req)
    /\ IsObjectDocument(req.Body)
    /\ BodyMembers(req, f) # {}

BodyValue(req, f) ==
    LET i == CHOOSE i \in BodyMembers(req, f) : \A j \in BodyMembers(req, f) : j <= i
    IN  IF f = "text" THEN req.Body[i].val.s ELSE req.Body[i].val.n

QueryParams(req, f) ==
    {q \in req.Query : q.key = structFieldToKey(f) /\ Len(q.values) > 0}

QuerySupplies(req, f) == QueryParams(req, f) # {}

QueryValue(req, f) == Converted(f, (CHOOSE q \in QueryParams(req, f) : TRUE).values[1])

PathSupplies(bb, f) ==
    /\ structFieldToKey(f) \in DOMAIN bb.Params
    /\ Convertible(f, bb.Params[structFieldToKey(f)])

PathValue(bb, f) == Converted(f, bb.Params[structFieldToKey(f)])

\* the value of field f by the precedence path < query < body
SeenValue(f, withBody) ==
    IF withBody /\ BodySupplies(r, f) THEN BodyValue(r, f)
    ELSE IF QuerySupplies(r, f) THEN QueryValue(r, f)
    ELSE IF PathSupplies(b, f) THEN PathValue(b, f)
    ELSE ZeroObject[f]

\* the handler returned a response and no error
Answered ==
    /\ b.Handled
    /\ b.Returns # <<>>
    /\ ~b.Returns[1].val.nil
    /\ ReturnedError(b.Returns) = "nil"

\* the path variable, one query parameter and one member of a JSON body name
\* three different fields, each with a value of the field's kind
DisjointSources ==
    /\ b.exists
    /\ DOMAIN b.Params = {KeyId}
    /\ PathSupplies(b, "id")
    /\ Cardinality(r.Query) = 1
    /\ Len(r.Body) = 3
    /\ \E fq, fb \in RequestFields \ {"id"} :
          /\ fq # fb
          /\ QuerySupplies(r, fq)
          /\ Convertible(fq, (CHOOSE q \in r.Query : TRUE).values[1])
          /\ BodySupplies(r, fb)
          /\ r.Body[2].val.kind = (IF fb = "text" THEN "str" ELSE "num")

\* C11: with the Orthodox chain, a request whose path variable, query
\* parameter and JSON body name three different fields of the request struct
\* invokes the handler once, with a struct in which each of the fields holds
\* the value from its source; when the handler returns a response, the status
\* is 200 and the body is exactly the JSON encoding of that response.
C11_OrthodoxRoundTrip ==
    (Done /\ middlewares = OrthodoxChain /\ DisjointSources) =>
        /\ b.Handled
        /\ HandlerCalls(log) = 1
        /\ IsMapped
        /\ MappedObject.id = PathValue(b, "id")
        /\ \A f \in RequestFields \ {"id"} :
              /\ QuerySupplies(r, f) => MappedObject[f] = QueryValue(r, f)
              /\ BodySupplies(r, f) => MappedObject[f] = BodyValue(r, f)
        /\ Answered =>
              /\ w = 200
              /\ wbody = <<Tok("{"), Member(KeyText, JStr(b.Returns[1].val.text)),
                           Tok("}")>>

\* path id=1, query offset=100, body {"text":"Hi!"}: the handler saw 1, 100
\* and "Hi!", and the response is 200 {"text":"Hi!!"}
C11_Witness ==
    /\ Done
    /\ middlewares = OrthodoxChain
    /\ DisjointSources
    /\ IsMapped
    /\ MappedObject = [id |-> 1, offset |-> 100, text |-> <<"H", "i", "!">>,
                       tags |-> <<>>]
    /\ Answered
    /\ w = 200
    /\ wbody = <<Tok("{"), Member(KeyText, JStr(<<"H", "i", "!", "!">>)), Tok("}")>>

\* C12: every field of the request struct the handler is invoked with holds
\* the value of the body if the body supplies the field, otherwise the value
\* of the query if the query supplies it, otherwise the value of the path
\* variable if there is one (and it converts to the field's kind), otherwise
\* the zero value.
C12_SourcePrecedence ==
    (b.Handled /\ IsMapped) =>
        \A f \in RequestFields : MappedObject[f] = SeenValue(f, TRUE)

\* the path, the query and the body all supply id: the handler saw the body's
C12_Witness ==
    /\ b.Handled
    /\ IsMapped
    /\ PathSupplies(b, "id")
    /\ QuerySupplies(r, "id")
    /\ BodySupplies(r, "id")
    /\ PathValue(b, "id") = 1
    /\ QueryValue(r, "id") = 2
    /\ MappedObject.id = 3

\* the index of the RequestObjectMapper stage
MapperStage == (CHOOSE i \in 1..Len(middlewares) : middlewares[i] = "RequestObjectMapper") - 1

\* RequestObjectMapper returned err without calling b.Next()
MapperDeclined(err) ==
    \E k \in Events("return") :
        log[k].st = MapperStage /\ log[k].calls = 0 /\ log[k].val = err

\* RequestObjectMapper went on to call b.Next()
MapperContinued == \E k \in Events("pre") : log[k].st = MapperStage

\* C13: for a request whose body is empty or two bytes long, or whose
\* Content-Type's first token is not application/json, RequestObjectMapper
\* returns no parse error of the body and merges no field of it: unless the
\* path or the query failed, it calls b.Next() with a struct that holds the
\* values of the path variables and the query parameters.
C13_BodySkipped ==
    ( /\ b.exists
      /\ "RequestObjectMapper" \in {middlewares[i] : i \in 1..Len(middlewares)}
      /\ \E k \in Events("enter") : k < Len(log) /\ log[k].st = MapperStage
      /\ ~BodyDecoded(r) )
    => /\ ~MapperDeclined("ErrUnmarshal")
       /\ \/ MapperDeclined("ErrPathParameterFieldMissing")
          \/ MapperDeclined("ErrNotIntFormat")
          \/ /\ MapperContinued
             /\ IsMapped
             /\ \A f \in RequestFields : MappedObject[f] = SeenValue(f, FALSE)

\* a JSON body of the two bytes "xy": the handler ran with the query's value
C13_Witness ==
    /\ b.Handled
    /\ IsMapped
    /\ SplitOn(r.ContentType, ";")[1] = JSONContentType
    /\ r.Body = <<Tok("x"), Tok("y")>>
    /\ QuerySupplies(r, "offset")
    /\ MappedObject = [id |-> 1, offset |-> 100, text |-> <<>>, tags |-> <<>>]

----------------------------------------------------------------------------
(* Plugins: C14 - C16, checked under SpecPlugin *)

\* the first plugin whose hook returns an error, the last plugin if none does
LastScanned ==
    LET failing == {i \in 1..Len(plugins) : plugins[i].base = "failing"}
    IN  IF failing = {} THEN Len(plugins)
        ELSE CHOOSE i \in failing : \A j \in failing : i <= j

\* the routes after the hook of plugin i was given rds
RoutesAfterHook(i, rds) ==
    IF plugins[i].base = "swagger" THEN Append(rds, SwaggerRoute) ELSE rds

\* C14: a call of Prepare invokes the hook of every registered plugin once, in
\* registration order, up to and including the first plugin whose hook
\* returns an error, where Prepare panics; each hook is given the routes
\* registered so far, in registration order: the routes at the call of
\* Prepare and those the hooks before it registered.
C14_PrepareScansAll ==
    [][ prepares' = prepares + 1 =>
          LET new == SubSeq(scans', Len(scans) + 1, Len(scans'))
          IN  /\ SubSeq(scans', 1, Len(scans)) = scans
              /\ Len(new) = LastScanned
              /\ \A i \in 1..LastScanned :
                    /\ new[i].plugin = i
                    /\ new[i].prepare = prepares'
                    /\ new[i].rds = IF i = 1 THEN handlers
                                    ELSE RoutesAfterHook(i - 1, new[i - 1].rds)
              /\ handlers' = IF LastScanned = 0 THEN handlers
                             ELSE RoutesAfterHook(LastScanned, new[LastScanned].rds)
              /\ (fatal' # "none") <=>
                    (\E i \in 1..Len(plugins) : plugins[i].base = "failing") ]_vars

\* Prepare ran the hooks of two plugins, the second after the swagger plugin
\* had registered its route
C14_Witness ==
    /\ prepares = 1
    /\ Len(plugins) = 2
    /\ Len(scans) = 2
    /\ handlers # <<>>
    /\ scans[1].plugin = 1
    /\ scans[2].plugin = 2
    /\ scans[1].rds # <<>>
    /\ scans[2].rds = Append(scans[1].rds, SwaggerRoute)

\* the number of calls of the hook of plugin i
ScanCount(i) == Cardinality({k \in 1..Len(scans) : scans[k].plugin = i})

\* C15 as claimed: over any sequence of calls of Prepare, the hook of each
\* registered plugin is invoked at most once.
C15_ScanAtMostOnce ==
    \A i \in 1..Len(plugins) : ScanCount(i) <= 1

\* C16: every registered plugin has a scan hook, and Prepare never panics
\* for an unused plugin; the registration of a plugin without an interface
\* panics and leaves the plugin list as it was; no step of a dispatch panics.
C16_UnusedPluginFailsAtRegistration ==
    /\ [](\A i \in 1..Len(plugins) : HandlersScanner(plugins[i]) # "nil")
    /\ [](fatal # "Prepare: unused plugin")
    /\ [][ /\ Plugin("none") => fatal' = "Plugin: unused plugin" /\ plugins' = plugins
           /\ fatal' = "Plugin: unused plugin" => plugins' = plugins /\ stack = <<>>
           /\ (stack # <<>> \/ stack' # <<>>) => fatal' = fatal ]_vars

\* a plugin without an interface was refused after another was registered
\* and Prepare had run
C16_Witness ==
    /\ fatal = "Plugin: unused plugin"
    /\ Len(plugins) = 1
    /\ prepares = 1
    /\ scans # <<>>
----------------------------------------------------------------------------
(* Validation: C21, checked under SpecValidator *)

\* the Validate calls stage st has made on argument idx
ValidateCalls(st, idx) ==
    {k \in Events("validate") : log[k].st = st /\ log[k].arg = idx}

\* the slots RequestValidator is to validate: resolved, and of a declared type
\* that is not framework-owned
ToValidate(bb) ==
    {idx \in 1..Len(bb.ArgumentTypes) :
        /\ bb.ArgumentTypes[idx] \notin FrameworkTypes
        /\ idx <= Len(bb.Arguments)
        /\ IsValid(bb.Arguments[idx])}

ClientError(err) == StatusCode(err) \in 400..499

\* C21 as claimed: a RequestValidator stage that has run its loop has called
\* Validate exactly once for each resolved argument of a declared type that is
\* not framework-owned (up to the first call that returned an error); when a
\* call returned a non-nil error the stage returns without calling b.Next()
\* and the error it returns has a 4xx status.
C21_ValidateEachOnce ==
    [][ StageStarts("RequestValidator") =>
          /\ \A idx \in 1..Len(b.Arguments) :
                Cardinality({k \in 1..Len(log') :
                                /\ log'[k].ev = "validate"
                                /\ log'[k].st = Top.st
                                /\ log'[k].arg = idx})
                  = IF /\ idx \in ToValidate(b)
                       /\ \A k \in (Len(log) + 1)..Len(log') :
                             (log'[k].ev = "validate" /\ log'[k].val # "nil")
                                => log'[k].arg >= idx
                    THEN 1 ELSE 0
          /\ (\E k \in (Len(log) + 1)..Len(log') :
                  log'[k].ev = "validate" /\ log'[k].val # "nil")
                => /\ Len(stack') = Len(stack) - 1
                   /\ stack'[Len(stack')].pc = "ret"
                   /\ ClientError(stack'[Len(stack')].err) ]_vars
----------------------------------------------------------------------------
(* Error translation: C22, checked under SpecValidator *)

\* a b.Next() called by a ResponseMapper stage has returned
MapperResumes ==
    /\ stack # <<>>
    /\ Top.st >= 0
    /\ Top.pc = "ret"
    /\ middlewares[Top.st + 1] = "ResponseMapper"

\* the error ResponseMapper finds: the one b.Next() returned, else the one
\* among the handler's return values
ErrorSeen == IF Top.err # "nil" THEN Top.err ELSE ReturnedError(b.Returns)

\* the status an error answers with: its own if it implements
\* HTTPErrorResponse (400 for the framework's bad-request errors and for a
\* failed validation, 418 for the application's error), 500 otherwise
OwnStatus(err) ==
    CASE err \in {"ErrCSRFBadToken", "ErrNotIntFormat", "ErrUnmarshal", "validateError"} -> 400
      [] err = "ErrTeapot" -> 418
      [] OTHER -> 500

\* C22: when the b.Next() of ResponseMapper returns an error, or the handler
\* returned one, the status of the response becomes the error's own status
\* if it implements HTTPErrorResponse and 500 otherwise (a status written
\* before stays), and ResponseMapper returns nil; when ResponseMapper is the
\* outermost stage Router.ServeHTTP receives nil and writes nothing.
C22_ErrorStatus ==
    [][ /\ (MapperResumes /\ ErrorSeen # "nil") =>
              /\ w' = (IF w = 0 THEN OwnStatus(ErrorSeen) ELSE w)
              /\ wbody' # wbody
              /\ Len(stack') = Len(stack) - 1
              /\ stack'[Len(stack')].pc = "ret"
              /\ stack'[Len(stack')].err = "nil"
        /\ (/\ stack # <<>>
            /\ Top.st = -1
            /\ Top.pc = "ret"
            /\ middlewares # <<>>
            /\ middlewares[1] = "ResponseMapper") =>
              /\ Top.err = "nil"
              /\ w' = w
              /\ wbody' = wbody ]_vars

C22_Witness ==
    /\ Done
    /\ middlewares # <<>>
    /\ middlewares[1] = "ResponseMapper"
    /\ w = 418
    /\ \E k \in Events("validate") : log[k].val = "ErrTeapot"
    /\ \E k \in Events("done") : log[k].val = "nil"
----------------------------------------------------------------------------
(* Registration: C23, checked under SpecHandle *)

\* the methods of the entries a method string is to register, in order
MethodTokens(method) ==
    CASE method = <<"G", "E", "T">> -> <<"GET">>
      [] method = StrGetPost        -> <<"GET", "POST">>
      [] method = StrGetHeadStar    -> <<"GET", "HEAD", "*">>
      [] method = StrPutComma       -> <<"PUT", "">>

\* C23: ServeMux.Handle with a comma-separated method list appends one entry
\* per token, in token order, each with the token upper-cased as its method
\* and all with the same parsed template and the same handler; the entries
\* registered before keep their positions; with a handler that is no
\* function Handle panics and no entry is added.
C23_HandleMethodList ==
    [][ \A method \in HandleMethods, p \in HandlePaths, hc \in HandleHandlers :
          Handle(method, p, hc, MaxHandleRoutes) =>
            IF IsFunction(hc)
            THEN /\ fatal' = "none"
                 /\ Len(handlers') = Len(handlers) + Len(MethodTokens(method))
                 /\ \A i \in 1..Len(handlers) : handlers'[i] = handlers[i]
                 /\ \A k \in 1..Len(MethodTokens(method)) :
                       /\ handlers'[Len(handlers) + k].Method = MethodTokens(method)[k]
                       /\ handlers'[Len(handlers) + k].PathTemplate = ParsePathTemplate(p)
                       /\ handlers'[Len(handlers) + k].HandlerContainer = hc
            ELSE /\ fatal' = "argument is not function"
                 /\ handlers' = handlers ]_vars

C23_Witness ==
    /\ Len(handlers) = 3
    /\ handlers[1].Method = "GET"
    /\ Template(1) = PathAId
    /\ handlers[2].Method = "GET"
    /\ handlers[3].Method = "POST"
    /\ Template(2) = PathA
    /\ Template(3) = PathA
    /\ handlers[2].HandlerContainer = handlers[3].HandlerContainer
----------------------------------------------------------------------------
(* Route selection: C24 - C28, checked under SpecRouter *)

\* C24 as claimed: the selected entry has the highest method tier among the
\* eligible entries: no eligible entry has a higher method tier.
C24_HighestMethodTier ==
    (serving /\ picked # 0) =>
        \A j \in 1..Len(handlers) :
            Eligible(j) =>
                methodMatchRate(handlers[j], r) <= methodMatchRate(handlers[picked], r)

\* the tiers of every entry for the request being served
Scores == [i \in 1..Len(handlers) |-> Score(i)]

\* Router.ServeHTTP has just made its selection for the request: no step of
\* the dispatch has followed yet
Routed == serving /\ log = <<>>

\* a pair of tiers dominates another: both tiers at least as high, one
\* strictly higher
Dominates(sj, si) ==
    /\ sj[1] >= si[1]
    /\ sj[2] >= si[2]
    /\ sj # si

\* C25: the selected entry is not dominated by an eligible entry; among the
\* eligible entries with its method tier none has a higher path tier.
C25_NotDominated ==
    (Routed /\ picked # 0) =>
        LET sc == Scores
        IN  \A j \in 1..Len(handlers) :
                (sc[j][1] # noMethodMatch /\ sc[j][2] # noPathMatch) =>
                    /\ ~Dominates(sc[j], sc[picked])
                    /\ sc[j][1] = sc[picked][1] => sc[j][2] <= sc[picked][2]

C25_Witness ==
    /\ serving
    /\ picked = 2
    /\ Eligible(1)
    /\ Dominates(Score(2), Score(1))
    /\ Score(1)[1] = Score(2)[1]

\* the method of entry i admits the request: "*", the request's method, or
\* GET for a HEAD request
MethodAdmits(i) ==
    \/ handlers[i].Method = "*"
    \/ handlers[i].Method = r.Method
    \/ handlers[i].Method = "GET" /\ r.Method = "HEAD"

\* C26: an entry is returned if and only if some entry is eligible (none is
\* returned only when no entry is eligible), the returned entry is eligible,
\* and its method admits the request.
C26_EligibleIffReturned ==
    Routed =>
        IF picked = 0
        THEN \A i \in 1..Len(handlers) :
                \/ methodMatchRate(handlers[i], r) = noMethodMatch
                \/ pathMatchRate(handlers[i], r) = noPathMatch
        ELSE /\ MethodAdmits(picked)
             /\ methodMatchRate(handlers[picked], r) # noMethodMatch
             /\ pathMatchRate(handlers[picked], r) # noPathMatch

C26_Witness ==
    /\ serving
    /\ Len(handlers) = 2
    /\ picked = 2
    /\ ~MethodAdmits(1)
    /\ pathMatchRate(handlers[1], r) > pathMatchRate(handlers[2], r)

\* the segments of the request's decoded path
RequestSegments == Split(URLPath(r))

\* C27 as claimed: an entry is selected only if every non-empty literal
\* segment of its template equals the segment of the request path at the same
\* position.
C27_LiteralSegmentsEqual ==
    (serving /\ picked # 0) =>
        LET pt == handlers[picked].PathTemplate
        IN  \A i \in 1..Len(pt.splittedPathTemplate) :
                (~pt.isVariables[i] /\ pt.splittedPathTemplate[i] # <<>>) =>
                    /\ i <= Len(RequestSegments)
                    /\ RequestSegments[i] = pt.splittedPathTemplate[i]

\* the variable names of the template of entry i
VariableNames(i) ==
    LET pt == handlers[i].PathTemplate
    IN  {VariableName(pt.splittedPathTemplate[k]) :
            k \in {n \in 1..Len(pt.splittedPathTemplate) : pt.isVariables[n]}}

\* C28 as claimed: whenever an entry is selected Router.ServeHTTP makes a
\* Bubble for it, with a binding for each variable of the entry's template;
\* the response 500 "[ucon] invalid handler picked" is never written.
C28_SecondMatchSucceeds ==
    /\ wbody # ErrorText("[ucon] invalid handler picked")
    /\ (serving /\ picked # 0) =>
          /\ b.exists
          /\ DOMAIN b.Params = VariableNames(picked)
----------------------------------------------------------------------------
(* The chain cursor: C29, C30 *)

\* C29 as claimed: in a dispatch the request handler is invoked at most once,
\* whatever the stages do.
C29_HandlerAtMostOnce == HandlerCalls(log) <= 1

\* the stages invoked in the dispatch, in the order of their invocation
Invoked ==
    LET sel == SelectSeq(log, LAMBDA e : e.ev = "enter")
    IN  [k \in 1..Len(sel) |-> sel[k].st]

\* C30: in a dispatch queueIndex stays within 0 .. len(middlewares) and never
\* decreases; the k-th stage invocation is that of stage k - 1, so no stage is
\* skipped, none is invoked twice and there are at most len(middlewares)
\* invocations, also when stages call b.Next() repeatedly; and the dispatch
\* comes to its end.
C30_Cursor ==
    /\ [](b.exists =>
            /\ b.queueIndex \in 0..Len(middlewares)
            /\ Len(Invoked) <= Len(middlewares)
            /\ Len(Invoked) = b.queueIndex
            /\ \A k \in 1..Len(Invoked) : Invoked[k] = k - 1)
    /\ [][stack # <<>> => b'.queueIndex >= b.queueIndex]_vars
    /\ (stack # <<>>) ~> (stack = <<>> /\ Done)

C30_Witness ==
    /\ Done
    /\ Len(middlewares) = 3
    /\ Len(Invoked) = 3
    /\ b.queueIndex = 3
    /\ \E k \in Events("return") : log[k].st = 0 /\ log[k].calls = 2
    /\ HandlerCalls(log) >= 1

----------------------------------------------------------------------------
(* Handled and Returns: C31 *)

\* the end of the chain was reached and Bubble.do returned an error
ArgumentCheckFailed == \E k \in Events("do") : log[k].val # "nil"

\* C31 as claimed: Handled is true if and only if the handler has been invoked
\* and has returned in the dispatch; it is false while queueIndex <
\* len(middlewares), false after a stage returned without calling b.Next(),
\* false after the argument check failed, and Returns is non-empty only if
\* Handled is true.
C31_HandledIffInvoked ==
    b.exists =>
        /\ b.Handled <=> (Events("handler") # {})
        /\ (b.queueIndex < Len(middlewares)) => ~b.Handled
        /\ SomeStageDeclined => ~b.Handled
        /\ ArgumentCheckFailed => ~b.Handled
        /\ (b.Returns # <<>>) => b.Handled

----------------------------------------------------------------------------
(* RequestObjectMapper: C32 - C37 *)

\* the declared types that are a pointer to a struct: the request struct and
\* *http.Request
PointerToStruct == {"obj", "req"}

\* the argument slots RequestObjectMapper finds unresolved with a declared
\* type that is a pointer to a struct
OpenStructSlots(bb) ==
    {idx \in 1..Len(bb.ArgumentTypes) :
        /\ idx <= Len(bb.Arguments)
        /\ ~IsValid(bb.Arguments[idx])
        /\ bb.ArgumentTypes[idx] \in PointerToStruct}

\* C32 as claimed: when RequestObjectMapper goes on to b.Next(), every slot
\* that was unresolved on entry and whose declared type is a pointer to a
\* struct holds an object the stage made; a handler that declares two request
\* structs reaches the end of the chain with both resolved.
C32_EveryStructSlotMapped ==
    [][ (StageStarts("RequestObjectMapper") /\ stack'[Len(stack')].pc = "call") =>
            \A idx \in OpenStructSlots(b) :
                /\ IsValid(b'.Arguments[idx])
                /\ b'.Arguments[idx].src = "RequestObjectMapper" ]_vars

\* every path variable of the route has a field in the request struct
PathFieldsExist(bb) ==
    \A key \in DOMAIN bb.Params : FieldOfKey("obj", key) # ""

\* a path variable names a scalar field and its value does not convert to
\* the field's kind
PathValueMalformed(bb) ==
    \E key \in DOMAIN bb.Params :
        /\ FieldOfKey("obj", key) # ""
        /\ ~Convertible(FieldOfKey("obj", key), bb.Params[key])

\* a query key with a single value names a scalar field and the value does
\* not convert to the field's kind
QueryValueMalformed(req) ==
    \E q \in req.Query :
        /\ Len(q.values) = 1
        /\ FieldOfKey("obj", q.key) # ""
        /\ FieldKind(FieldOfKey("obj", q.key)) # "slice"
        /\ ~Convertible(FieldOfKey("obj", q.key), q.values[1])

\* RequestObjectMapper is about to map the request into a request struct
MapperStarts ==
    /\ StageStarts("RequestObjectMapper")
    /\ RequestObjectIndex(b) # 0
    /\ b.ArgumentTypes[RequestObjectIndex(b)] = "obj"

\* the stage at the top of the stack returns err without calling b.Next()
DeclinesWith(errs) ==
    /\ Len(stack') = Len(stack) - 1
    /\ stack'[Len(stack')].pc = "ret"
    /\ stack'[Len(stack')].err \in errs
    /\ b' = b

\* C33 as claimed: when the value of a path variable or the single value of a
\* query parameter does not convert to the kind of its scalar field,
\* RequestObjectMapper returns a client-input error without calling b.Next():
\* the handler is not invoked and the status of the response is 400.
C33_MalformedScalar ==
    [][ /\ ( /\ MapperStarts
             /\ PathFieldsExist(b)
             /\ PathValueMalformed(b) \/ QueryValueMalformed(r) )
           => DeclinesWith({"ErrNotIntFormat"})
        /\ ( /\ b.exists
             /\ middlewares = OrthodoxChain
             /\ PathFieldsExist(b)
             /\ PathValueMalformed(b) \/ QueryValueMalformed(r) )
           => /\ HandlerCalls(log') = 0
              /\ Done' => w' = 400 ]_vars

\* the body is announced as JSON by the first token of the Content-Type
AnnouncedJSON(req) == SplitOn(req.ContentType, ";")[1] = JSONContentType

\* the body is not an encoding of the request struct
BodyMalformed(req) == ~Unmarshal(req.Body, ZeroObject, "obj").ok

\* a value of a query key does not convert: the first value for a scalar
\* field, any value for a slice
QueryFails(req) ==
    \E q \in req.Query :
        /\ FieldOfKey("obj", q.key) # ""
        /\ IF FieldKind(FieldOfKey("obj", q.key)) = "slice"
           THEN \E i \in 1..Len(q.values) : ~ParseInt(q.values[i]).ok
           ELSE /\ Len(q.values) >= 1
                /\ ~Convertible(FieldOfKey("obj", q.key), q.values[1])

\* the error RequestObjectMapper returns for a body it cannot decode, unless
\* the path variables or the query made it return before
BodyRejection(bb, req) ==
    IF ~PathFieldsExist(bb) THEN "ErrPathParameterFieldMissing"
    ELSE IF QueryFails(req) THEN "ErrNotIntFormat"
    ELSE "ErrUnmarshal"

\* C34 as claimed: with Content-Type application/json every non-empty body
\* that is not an encoding of the request struct makes RequestObjectMapper
\* return a client-input error without calling b.Next().
C34_AnyMalformedBody ==
    [][ ( /\ MapperStarts
          /\ AnnouncedJSON(r)
          /\ Len(r.Body) # 0
          /\ BodyMalformed(r) )
        => DeclinesWith(BadRequests \cup {"ErrPathParameterFieldMissing"}) ]_vars

\* C34, amended: with Content-Type application/json a body that is neither
\* empty nor two bytes long and that is not an encoding of the request struct
\* makes RequestObjectMapper return without calling b.Next(): the error is the
\* client-input error of the body, or the error the path variables or the
\* query gave before; the handler is not invoked and the status is 400
\* (500 when a path variable has no field).
C34_MalformedBodyRejected ==
    [][ /\ ( /\ MapperStarts
             /\ AnnouncedJSON(r)
             /\ Len(r.Body) \notin {0, 2}
             /\ BodyMalformed(r) )
           => DeclinesWith({BodyRejection(b, r)})
        /\ ( /\ b.exists
             /\ middlewares = OrthodoxChain
             /\ AnnouncedJSON(r)
             /\ Len(r.Body) \notin {0, 2}
             /\ BodyMalformed(r) )
           => /\ HandlerCalls(log') = 0
              /\ Done' => w' = (IF PathFieldsExist(b) THEN 400 ELSE 500) ]_vars

\* the body {"offset":"x"}, a string for an int field: 400, no handler call
C34_Witness ==
    /\ Done
    /\ AnnouncedJSON(r)
    /\ r.Body = <<Tok("{"), Member(KeyOffset, JStr(<<"x">>)), Tok("}")>>
    /\ MapperDeclined("ErrUnmarshal")
    /\ HandlerCalls(log) = 0
    /\ w = 400

\* the returns of RequestObjectMapper with ErrPathParameterFieldMissing, made
\* without a call of b.Next()
MissingFieldReturns ==
    {k \in Events("return") :
        /\ log[k].val = "ErrPathParameterFieldMissing"
        /\ log[k].calls = 0
        /\ middlewares[log[k].st + 1] = "RequestObjectMapper"}

\* C35 as claimed: once RequestObjectMapper has returned
\* ErrPathParameterFieldMissing without calling b.Next(), for a path variable
\* the request type has no field for, the slot stays unresolved, no later
\* stage runs and the handler is not invoked.
C35_PathFieldMissing ==
    \A k \in MissingFieldReturns :
        /\ ~IsMapped
        /\ \A j \in Events("enter") : log[j].st <= log[k].st
        /\ Events("handler") = {}

\* the body does not make RequestObjectMapper fail
BodyAccepted(req) == ~(BodyDecoded(req) /\ BodyMalformed(req))

\* a value of a query key for a slice field does not convert to an int
SliceValueMalformed(req) ==
    \E q \in req.Query :
        /\ q.key = KeyTags
        /\ \E i \in 1..Len(q.values) : ~ParseInt(q.values[i]).ok

\* the object RequestObjectMapper stores in its step
StoredObject == b'.Arguments[RequestObjectIndex(b)].obj

\* C37: a slice field supplied n values by a repeated query key holds the n
\* converted values in the order supplied; if one of them does not convert
\* the mapping fails with a client-input error; a field that is no slice and
\* is supplied several values takes the first.
C37_SliceInOrder ==
    [][ ( /\ MapperStarts
          /\ PathFieldsExist(b)
          /\ BodyAccepted(r) )
        => IF SliceValueMalformed(r) \/ QueryFails(r)
           THEN DeclinesWith({"ErrNotIntFormat"})
           ELSE /\ stack'[Len(stack')].pc = "call"
                /\ \A q \in r.Query :
                      /\ q.key = KeyTags =>
                            /\ Len(StoredObject.tags) = Len(q.values)
                            /\ \A i \in 1..Len(q.values) :
                                  StoredObject.tags[i] = ParseInt(q.values[i]).v
                      /\ \A f \in RequestFields :
                            ( /\ q.key = structFieldToKey(f)
                              /\ Len(q.values) > 1
                              /\ ~BodySupplies(r, f) )
                            => StoredObject[f] = Converted(f, q.values[1]) ]_vars

\* tags=3&tags=1&tags=2: the handler saw [3, 1, 2]
C37_Witness ==
    /\ b.Handled
    /\ IsMapped
    /\ \E q \in r.Query : q.key = KeyTags /\ Len(q.values) = 3
    /\ MappedObject.tags = <<3, 1, 2>>

----------------------------------------------------------------------------
(* Configuration errors: C36, checked under SpecStartup *)

\* entry i routes to a handler that takes the request struct, and its template
\* names a variable the request struct has no field for
UnboundVariable(i) ==
    /\ \E idx \in 1..Len(handlers[i].HandlerContainer.In) :
          handlers[i].HandlerContainer.In[idx] = "obj"
    /\ \E name \in VariableNames(i) :
          name \notin {structFieldToKey(f) : f \in RequestFields}

\* C36 as claimed: a route whose template names a variable that the request
\* type of its handler does not expose is rejected as a fatal error by Handle
\* or by Prepare: the mux never serves with such a route among its entries and
\* no request is dispatched to one.
C36_UnboundVariableIsFatal ==
    \A i \in 1..Len(handlers) :
        UnboundVariable(i) =>
            /\ ~serving
            /\ picked # i

----------------------------------------------------------------------------
(* Concurrent requests: C38, checked under SpecConcurrent *)

\* the goroutines: the one that runs and the parked ones
InFlight == {Running} \cup {parked[i] : i \in 1..Len(parked)}

\* which code ran in a dispatch, in which frame, by its history
RanIn(l) ==
    LET sel == SelectSeq(l, LAMBDA e : e.ev \in {"pre", "do", "recv", "return"})
    IN  [k \in 1..Len(sel) |-> <<sel[k].ev, sel[k].st>>]

\* What a request does when it is served alone through the Orthodox chain:
\* PUT /a/1 passes the four stages, reaches the end of the chain and unwinds;
\* PUT /a/1?offset=x is turned back by RequestObjectMapper, stage 3.
AloneRun(req) ==
    IF req.Query = {}
    THEN << <<"pre", 0>>, <<"pre", 1>>, <<"pre", 2>>, <<"pre", 3>>, <<"do", 4>>,
            <<"recv", 3>>, <<"return", 3>>, <<"recv", 2>>, <<"return", 2>>,
            <<"recv", 1>>, <<"return", 1>>, <<"recv", 0>>, <<"return", 0>>,
            <<"recv", -1>> >>
    ELSE << <<"pre", 0>>, <<"pre", 1>>, <<"pre", 2>>,
            <<"return", 3>>, <<"recv", 2>>, <<"return", 2>>,
            <<"recv", 1>>, <<"return", 1>>, <<"recv", 0>>, <<"return", 0>>,
            <<"recv", -1>> >>

IsPrefix(s, t) == Len(s) <= Len(t) /\ s = SubSeq(t, 1, Len(s))

\* the dispatch of goroutine g is over
Finished(g) == \E k \in 1..Len(g.log) : g.log[k].ev = "done"

\* The outcome of a request served alone: PUT /a/1 has the handler invoked
\* once with ID 1, and the status is 200, or 500 for the handler's error;
\* PUT /a/1?offset=x has status 400 and no handler call.
AloneOutcome(g) ==
    IF g.r.Query = {}
    THEN /\ g.b.Handled
         /\ HandlerCalls(g.log) = 1
         /\ g.b.queueIndex = 4
         /\ g.b.Arguments[1].obj.id = 1
         /\ g.w = (IF g.b.Returns[2].val = "nil" THEN 200 ELSE 500)
    ELSE /\ ~g.b.Handled
         /\ HandlerCalls(g.log) = 0
         /\ g.b.queueIndex = 4
         /\ g.b.Returns = <<>>
         /\ g.w = 400

\* a step of the goroutine that runs
RunningStep == Dispatch \/ ServeConcurrent

\* C38: with requests served concurrently and no registration during
\* serving, a step of a request changes neither the Bubble, stack or response
\* of another request nor the route list or the middleware list, scheduling
\* changes no request, and every request traverses the stages and reaches
\* the outcome of the same request served alone.
C38_RequestsIsolated ==
    /\ [][ /\ RunningStep =>
                /\ parked' = parked
                /\ handlers' = handlers
                /\ middlewares' = middlewares
           /\ Yield => InFlight' = InFlight ]_vars
    /\ [](\A g \in InFlight :
            g.r # NoRequest =>
                /\ IsPrefix(RanIn(g.log), AloneRun(g.r))
                /\ Finished(g) => AloneOutcome(g))

\* two requests in flight, one past its handler and one still on its way in
C38_Witness ==
    /\ parked # <<>>
    /\ stack # <<>>
    /\ parked[1].stack # <<>>
    /\ b.exists
    /\ HandlerCalls(parked[1].log) = 1
    /\ b.queueIndex \in 1..3
    /\ parked[1].r # r

====
